---- MODULE Spec2Model ----
(***************************************************************************)
(* Result-acquisition pipeline of the Databricks SQL client:               *)
(*   executeStatement  - submit / poll / cancel state machine              *)
(*   fetchStream       - chunk URL discovery and stream assembly           *)
(*   fetchRow/fetchAll - row delivery for inline and external-link results *)
(*   mergeExternalLinks - merging the external links into one upload      *)
(*   createRowMapper   - conversion of JSON_ARRAY rows into objects        *)
(* One call of one operation is modelled per behaviour; op selects it.     *)
(* JavaScript runs each continuation to its next await atomically, so an   *)
(* action is the code between two suspension points.  The abort signal,    *)
(* the service's responses and the timer are the environment.              *)
(***************************************************************************)
EXTENDS Integers, Sequences, FiniteSets, TLC

\* ---------------------------------------------------------------- bounds
MaxPolls == 2        \* status re-fetches the service answers before it must be terminal
MaxChunks == 3       \* largest total_chunk_count
MaxLinkedChunks == 2  \* largest total_chunk_count of a result without inline data, unless
                     \* fetchStream reads it as JSON_ARRAY and without a signal
MaxLinks == 3        \* external links reported over one resolution (payload + responses)
MaxRows == 2         \* rows carried by one inline chunk
RowsPerUrl == 2      \* rows stored behind one external URL
MaxCalls == 2        \* calls of mergeExternalLinks, each on the result of the one before

\* ------------------------------------------------------- program constants
TERMINAL_STATES == {"SUCCEEDED", "FAILED", "CANCELED", "CLOSED"}
StatementState == {"PENDING", "RUNNING"} \cup TERMINAL_STATES

VARIABLES
  op,            \* the operation this behaviour follows
  opts,          \* options of the call: signal, onProgress, enableMetrics, forceMerge
  aborted,       \* signal.aborted
  abortAt,       \* history: position of the call when the signal fired
  raised,        \* history: the error with which a request of the call was rejected ("none" if none was)
  \* executeStatement
  epc,           \* position of executeStatement
  state,         \* result.status.state of the last response ("none" before the first)
  cancelIssued,  \* the cancelIssued flag
  cancelReq,     \* the cancel request: none / inflight / ok / failed
  cancelCount,   \* cancel requests sent
  listener,      \* onAbort is attached to the signal
  submits,       \* postStatement requests sent
  refetches,     \* getStatement requests sent
  metricsReqs,   \* getQueryMetrics requests sent
  observed,      \* states observed, in order
  progress,      \* states passed to onProgress, in order
  lateTerminal,  \* history: a terminal state was delivered by a request the abort did not stop
  statusError,   \* result.status.error of the last response: "absent" / "present"
  metricsFailed, \* history: a metrics request has failed
  outcome,       \* how the call settled ("none" while pending)
  thrown,        \* fields of the error the call raised: code, message, statementId
  \* the statement result handed to fetchStream / fetchRow
  kind,          \* payload: "external" (external_links), "inline" (data_array), "none"
  total,         \* manifest.total_chunk_count
  payload,       \* result.external_links, in the order the payload lists them
  inlineRows,    \* number of rows of result.data_array
  rstate,        \* status.state of the result
  manifest,      \* the result has a manifest
  format,        \* manifest.format
  totalRowCount, \* manifest.total_row_count: <<n>>, or <<>> when the field is absent
  \* fetchStream
  spc,           \* position of mergeChunksToStream
  disc,          \* every link reported so far, in discovery order; a URL is its position
  chunkUrls,     \* the Map chunk index -> URLs, as its entries in insertion order
  ci,            \* loop variable i / chunkIndex
  chunkReqs,     \* chunk indices requested with getChunk, in order
  urls,          \* the list collectExternalUrls returned
  path,          \* delivery path taken: none / end / pipe / merge
  handed,        \* the URL list handed to the pipe or to the merge engine
  wi,            \* URLs whose body has been written to the output
  out,           \* the output stream: none / open / ended / errored
  outErr,        \* the error the output was destroyed with
  written,       \* rows written to the output, in order
  mergeFormat,   \* the format the merge engine was invoked with
  failure,       \* history: the error of a failed request or of the merge engine
  \* fetchRow
  rpc,           \* position of fetchRow
  ri,            \* rows of the current inline chunk already visited
  curRows,       \* number of rows of the current inline chunk
  delivered,     \* rows passed to onEachRow, in order
  \* fetchAll, the caller of fetchRow
  rows,          \* the array its onEachRow pushes to
  returned,      \* the array it returned (empty until it returns)
  allOutcome,    \* how fetchAll settled ("none" while pending)
  received,      \* history: the chunks getChunk has returned to fetchRow, in order
  \* mergeExternalLinks
  mpc,           \* position of mergeExternalLinks
  uploads,       \* invocations of mergeStreamToExternalLink
  merged,        \* the result it built: <<result>>, or <<>>
  uploadOutcome, \* how the upload callback settled: none / resolved / the error it rejected with
  round,         \* which call of mergeExternalLinks this is: the second is made on the result of the first
  produced,      \* the result the call was made on, when it is one mergeExternalLinks returned: <<r>>
  \* createRowMapper
  dpc,           \* "idle" before createRowMapper has run, "ready" once the mapper exists
  mapFormat,     \* the format the mapper is created for
  encodeBigInt,  \* options.encodeBigInt is given (the hook is value => value.toString())
  columnType,    \* type descriptor of the second column of the schema
  columnConverters, \* the converters the mapper closes over
  inRows,        \* the rows handed to the mapper
  decodes,       \* calls of the mapper so far: the row passed and what came back
  \* httpRequest
  hpc,           \* position of httpRequest: idle / fetch / delay / done
  attempt,       \* the loop variable attempt
  fetches,       \* calls of fetch
  retryDelay,    \* the variable retryDelay (ms)
  delayMs,       \* milliseconds of the last delay waited for
  lastResponse,  \* what the last call of fetch settled with
  \* concurrent calls
  calls          \* the invocations that run interleaved: what each was given, keeps, has sent and returned

execVars == <<epc, state, cancelIssued, cancelReq, cancelCount, listener, submits,
              refetches, metricsReqs, observed, progress, lateTerminal, statusError,
              metricsFailed>>
resultVars == <<kind, total, payload, inlineRows, rstate, manifest, format, totalRowCount>>
streamVars == <<spc, disc, chunkUrls, ci, chunkReqs, urls, path, handed, wi, out, outErr,
                written, mergeFormat, failure>>
rowVars == <<rpc, ri, curRows, delivered, rows, returned, allOutcome, received>>
mergeVars == <<mpc, uploads, merged, uploadOutcome, round, produced>>
mapperVars == <<dpc, mapFormat, encodeBigInt, columnType, columnConverters, inRows, decodes>>
httpVars == <<hpc, attempt, fetches, retryDelay, delayMs, lastResponse>>
vars == <<op, opts, aborted, abortAt, outcome, thrown, execVars, resultVars, streamVars, rowVars,
          mergeVars, mapperVars, httpVars, calls, raised>>

\* ====================================================== executeStatement
\* a classification that throws for FAILED and CANCELED only: CLOSED is returned
ClassOfClosedReturned(s) ==
  IF s = "FAILED" THEN "DatabricksSqlError"
  ELSE IF s = "CANCELED" THEN "StatementCancelledError"
  ELSE "Returned"

\* state -> outcome of the call (step 5 of executeStatement)
ClassOf(s) ==
  IF s = "SUCCEEDED" THEN "Returned"
  ELSE IF s = "CANCELED" THEN "StatementCancelledError"
  ELSE "DatabricksSqlError"

\* no DatabricksSqlError was raised
NoError == [code |-> "none", message |-> "none", statementId |-> FALSE]

\* code, message and statementId of the error of class o that executeStatement raises
\* for a result whose status.error is e; the constructors supply the defaults
ErrorFields(o, e) ==
  IF o = "StatementCancelledError"
    THEN [code |-> "CANCELLED", message |-> "Statement was cancelled", statementId |-> TRUE]
  ELSE IF o = "DatabricksSqlError"
    THEN [code |-> IF e = "present" THEN "error.error_code" ELSE "UNKNOWN_ERROR",
          message |-> IF e = "present" THEN "error.message"
                      ELSE "Statement execution failed",
          statementId |-> TRUE]
  ELSE IF o = "AbortError"
    THEN [code |-> "ABORTED", message |-> "Aborted", statementId |-> FALSE]
  ELSE NoError

\* what a request is rejected with when it fails: the AuthenticationError of a 401,
\* the RateLimitError of a 429, or another error of the transport (HttpError, a
\* network failure)
TransportErrors == {"AuthenticationError", "RateLimitError", "TransportError"}

\* what a request can be rejected with: the abort of the request once the signal
\* has fired, or a failure of the transport
Rejections == (IF aborted THEN {"AbortError", "DOMAbortError"} ELSE {}) \cup TransportErrors

\* cancelStatementSafely without the cancelIssued test
cancelStatementUnguarded ==
  /\ cancelIssued' = TRUE
  /\ cancelReq' = "inflight"
  /\ cancelCount' = cancelCount + 1

\* synchronous part of cancelStatementSafely: the flag test, the flag and the request
cancelStatementSafely ==
  IF cancelIssued
    THEN UNCHANGED <<cancelIssued, cancelReq, cancelCount>>
    ELSE /\ cancelIssued' = TRUE
         /\ cancelReq' = "inflight"
         /\ cancelCount' = cancelCount + 1

\* a call that settles without the finally block: onAbort stays attached
ThrownKeepingListener(o) ==
  /\ epc' = "done"
  /\ outcome' = o
  /\ thrown' = ErrorFields(o, statusError')
  /\ UNCHANGED <<listener, metricsReqs, progress, cancelIssued, cancelReq, cancelCount>>

\* the call settles with o; finally has removed the listener
Thrown(o) ==
  /\ epc' = "done"
  /\ outcome' = o
  /\ thrown' = ErrorFields(o, statusError')
  /\ listener' = FALSE
  /\ UNCHANGED <<metricsReqs, progress, cancelIssued, cancelReq, cancelCount>>

\* catch block when the error is an AbortError or the signal is aborted
AbortPath ==
  /\ cancelStatementSafely
  /\ IF cancelIssued
       THEN epc' = "done" /\ outcome' = "AbortError" /\ listener' = FALSE
            /\ thrown' = ErrorFields("AbortError", statusError')
       ELSE epc' = "catchCancel" /\ UNCHANGED <<outcome, thrown, listener>>
  /\ UNCHANGED <<metricsReqs, progress>>

\* a catch block that rethrows what it caught, abort or not
CatchRethrows(abortSeen, err) ==
  Thrown(IF abortSeen THEN "DOMAbortError" ELSE err)

\* catch block of the polling loop
CatchBlock(abortSeen, err) ==
  IF abortSeen THEN AbortPath ELSE Thrown(err)

\* await delay(POLL_INTERVAL_MS, signal): rejects at once when already aborted
EnterDelay(lis) ==
  IF aborted
    THEN CatchBlock(TRUE, "AbortError")
    ELSE /\ epc' = "delay"
         /\ listener' = lis
         /\ UNCHANGED <<outcome, thrown, metricsReqs, progress, cancelIssued, cancelReq,
                        cancelCount>>

\* what follows emitProgress: the delay inside the loop, the classification after it
AfterProgress(phase, s, lis) ==
  IF phase = "loop" THEN EnterDelay(lis) ELSE Thrown(ClassOf(s))

MetricsRequestedAlways == ~aborted

\* enableMetrics ? await fetchMetrics(...) : undefined sends a metrics request;
\* httpRequest throws before it calls fetch once the signal is aborted
MetricsRequested == opts.enableMetrics /\ ~aborted

\* emitProgress with the final callback made on success only
EmitProgressOnSuccessOnly(phase, s, lis) ==
  IF ~opts.onProgress \/ (phase = "final" /\ s # "SUCCEEDED")
    THEN AfterProgress(phase, s, lis)
    ELSE IF MetricsRequested
      THEN /\ epc' = (IF phase = "loop" THEN "loopMetrics" ELSE "finalMetrics")
           /\ metricsReqs' = metricsReqs + 1
           /\ listener' = lis
           /\ UNCHANGED <<outcome, thrown, progress, cancelIssued, cancelReq, cancelCount>>
      ELSE /\ epc' = (IF phase = "loop" THEN "loopCallback" ELSE "finalCallback")
           /\ progress' = Append(progress, [state |-> s, metrics |-> "none"])
           /\ listener' = lis
           /\ UNCHANGED <<outcome, thrown, metricsReqs, cancelIssued, cancelReq, cancelCount>>

\* await emitProgress?.(id): nothing without onProgress; a metrics request first
\* when enableMetrics (the request is refused, and swallowed, once aborted)
EmitProgress(phase, s, lis) ==
  IF ~opts.onProgress
    THEN AfterProgress(phase, s, lis)
    ELSE IF MetricsRequested
      THEN /\ epc' = (IF phase = "loop" THEN "loopMetrics" ELSE "finalMetrics")
           /\ metricsReqs' = metricsReqs + 1
           /\ listener' = lis
           /\ UNCHANGED <<outcome, thrown, progress, cancelIssued, cancelReq, cancelCount>>
      ELSE /\ epc' = (IF phase = "loop" THEN "loopCallback" ELSE "finalCallback")
           /\ progress' = Append(progress, [state |-> s, metrics |-> "none"])
           /\ listener' = lis
           /\ UNCHANGED <<outcome, thrown, metricsReqs, cancelIssued, cancelReq, cancelCount>>

\* a loop whose terminal set lacks CLOSED
LoopOrLeaveClosedPolls(s, lis) ==
  IF s \in {"SUCCEEDED", "FAILED", "CANCELED"}
    THEN EmitProgress("final", s, FALSE)
    ELSE EmitProgress("loop", s, lis)

\* while (!TERMINAL_STATES.has(state)) ... ; finally ; final progress
LoopOrLeave(s, lis) ==
  IF s \in TERMINAL_STATES
    THEN EmitProgress("final", s, FALSE)
    ELSE EmitProgress("loop", s, lis)

\* executeStatement without throwIfAborted at entry: the statement is always submitted
ExecStartUnchecked ==
  /\ UNCHANGED <<resultVars, mergeVars, mapperVars, httpVars, calls, raised, streamVars, rowVars, statusError>>
  /\ op = "exec" /\ epc = "init"
  /\ epc' = "submit"
  /\ submits' = submits + 1
  /\ UNCHANGED <<outcome, thrown, listener, metricsReqs, progress, cancelIssued, cancelReq,
                 cancelCount>>
  /\ UNCHANGED <<op, opts, aborted, abortAt, state, refetches, observed, lateTerminal,
                 metricsFailed>>

\* throwIfAborted, then postStatement
ExecStart ==
  /\ UNCHANGED <<resultVars, mergeVars, mapperVars, httpVars, calls, raised, streamVars, rowVars, statusError>>
  /\ op = "exec" /\ epc = "init"
  /\ IF aborted
       THEN Thrown("AbortError") /\ UNCHANGED submits
       ELSE /\ epc' = "submit"
            /\ submits' = submits + 1
            /\ UNCHANGED <<outcome, thrown, listener, metricsReqs, progress,
                           cancelIssued, cancelReq, cancelCount>>
  /\ UNCHANGED <<op, opts, aborted, abortAt, state, refetches, observed, lateTerminal,
                 metricsFailed>>

\* the submit response arrives (also when the abort did not stop the request)
SubmitResponds ==
  /\ UNCHANGED <<resultVars, mergeVars, mapperVars, httpVars, calls, raised, streamVars, rowVars>>
  /\ op = "exec" /\ epc = "submit"
  /\ \E s \in StatementState, e \in {"absent", "present"} :
       /\ e = "present" => s \in {"FAILED", "CANCELED", "CLOSED"}
       /\ state' = s
       /\ statusError' = e
       /\ observed' = Append(observed, s)
       /\ IF aborted
            THEN /\ cancelStatementSafely
                 /\ IF cancelIssued
                      THEN /\ epc' = "done" /\ outcome' = "AbortError"
                           /\ thrown' = ErrorFields("AbortError", statusError')
                      ELSE epc' = "preCancel" /\ UNCHANGED <<outcome, thrown>>
                 /\ UNCHANGED <<listener, metricsReqs, progress>>
            ELSE LoopOrLeave(s, opts.signal)
  /\ UNCHANGED <<op, opts, aborted, abortAt, submits, refetches, lateTerminal, metricsFailed>>

\* postStatement rejects: outside the try, the error reaches the caller as it is
SubmitFails ==
  /\ UNCHANGED <<resultVars, mergeVars, mapperVars, httpVars, calls, streamVars, rowVars, statusError>>
  /\ op = "exec" /\ epc = "submit"
  /\ \E e \in Rejections : raised' = e /\ Thrown(e)
  /\ UNCHANGED <<op, opts, aborted, abortAt, state, submits, refetches, observed, lateTerminal,
                 metricsFailed>>

\* fetchMetrics without its try/catch: a failed metrics request rejects emitProgress,
\* inside the try during polling and outside it for the final callback
MetricsSettlesUncaught ==
  /\ UNCHANGED <<resultVars, mergeVars, mapperVars, httpVars, calls, raised, streamVars, rowVars, statusError>>
  /\ op = "exec" /\ epc \in {"loopMetrics", "finalMetrics"}
  /\ \E m \in {"metrics", "none", "failed"} :
       /\ metricsFailed' = (metricsFailed \/ m = "failed")
       /\ IF m = "failed"
            THEN IF epc = "loopMetrics" THEN CatchBlock(aborted, "TransportError")
                                        ELSE Thrown("TransportError")
            ELSE /\ progress' = Append(progress, [state |-> state, metrics |-> m])
                 /\ epc' = (IF epc = "loopMetrics" THEN "loopCallback" ELSE "finalCallback")
                 /\ UNCHANGED <<outcome, thrown, cancelIssued, cancelReq, cancelCount,
                                listener, metricsReqs>>
  /\ UNCHANGED <<op, opts, aborted, abortAt, state, submits, refetches, observed,
                 lateTerminal>>

\* getQueryMetrics settles; fetchMetrics swallows a failure
MetricsSettles ==
  /\ UNCHANGED <<resultVars, mergeVars, mapperVars, httpVars, calls, raised, streamVars, rowVars, statusError>>
  /\ op = "exec" /\ epc \in {"loopMetrics", "finalMetrics"}
  /\ \E m \in {"metrics", "none", "failed"} :
       /\ progress' = Append(progress, [state |-> state,
                                        metrics |-> IF m = "failed" THEN "none" ELSE m])
       /\ metricsFailed' = (metricsFailed \/ m = "failed")
  /\ epc' = IF epc = "loopMetrics" THEN "loopCallback" ELSE "finalCallback"
  /\ UNCHANGED <<op, opts, aborted, abortAt, outcome, thrown, state, cancelIssued, cancelReq,
                 cancelCount, listener, submits, refetches, metricsReqs, observed,
                 lateTerminal>>

\* the promise returned by onProgress resolves
CallbackReturns ==
  /\ UNCHANGED <<resultVars, mergeVars, mapperVars, httpVars, calls, raised, streamVars, rowVars, statusError>>
  /\ op = "exec" /\ epc \in {"loopCallback", "finalCallback"}
  /\ AfterProgress(IF epc = "loopCallback" THEN "loop" ELSE "final", state, listener)
  /\ UNCHANGED <<op, opts, aborted, abortAt, state, submits, refetches, observed,
                 lateTerminal, metricsFailed>>

\* a delay that takes no signal: the timer fires and the status is re-fetched
\* although the signal has fired
DelayElapsedIgnoringAbort ==
  /\ UNCHANGED <<resultVars, mergeVars, mapperVars, httpVars, calls, raised, streamVars, rowVars, statusError>>
  /\ op = "exec" /\ epc = "delay"
  /\ epc' = "refetch"
  /\ refetches' = refetches + 1
  /\ UNCHANGED <<op, opts, aborted, abortAt, outcome, thrown, state, cancelIssued, cancelReq,
                 cancelCount, listener, submits, metricsReqs, observed, progress,
                 lateTerminal, metricsFailed>>

\* the timer of delay fires; getStatement is sent
DelayElapsed ==
  /\ UNCHANGED <<resultVars, mergeVars, mapperVars, httpVars, calls, raised, streamVars, rowVars, statusError>>
  /\ op = "exec" /\ epc = "delay" /\ ~aborted
  /\ epc' = "refetch"
  /\ refetches' = refetches + 1
  /\ UNCHANGED <<op, opts, aborted, abortAt, outcome, thrown, state, cancelIssued, cancelReq,
                 cancelCount, listener, submits, metricsReqs, observed, progress,
                 lateTerminal, metricsFailed>>

\* delay's own abort listener has rejected the delay
DelayAborted ==
  /\ UNCHANGED <<resultVars, mergeVars, mapperVars, httpVars, calls, raised, streamVars, rowVars, statusError>>
  /\ op = "exec" /\ epc = "delay" /\ aborted
  /\ CatchBlock(TRUE, "AbortError")
  /\ UNCHANGED <<op, opts, aborted, abortAt, state, submits, refetches, observed,
                 lateTerminal, metricsFailed>>

\* the status response arrives (also when the abort did not stop the request)
RefetchResponds ==
  /\ UNCHANGED <<resultVars, mergeVars, mapperVars, httpVars, calls, raised, streamVars, rowVars>>
  /\ op = "exec" /\ epc = "refetch"
  /\ \E s \in StatementState, e \in {"absent", "present"} :
       /\ refetches >= MaxPolls => s \in TERMINAL_STATES
       /\ e = "present" => s \in {"FAILED", "CANCELED", "CLOSED"}
       /\ state' = s
       /\ statusError' = e
       /\ observed' = Append(observed, s)
       /\ lateTerminal' = (lateTerminal \/ (aborted /\ s \in TERMINAL_STATES))
       /\ LoopOrLeave(s, listener)
  /\ UNCHANGED <<op, opts, aborted, abortAt, submits, refetches, metricsFailed>>

\* getStatement rejects: a transport error, or the abort of the request
RefetchFails ==
  /\ UNCHANGED <<resultVars, mergeVars, mapperVars, httpVars, calls, streamVars, rowVars, statusError>>
  /\ op = "exec" /\ epc = "refetch"
  /\ \E e \in Rejections : raised' = e /\ CatchBlock(aborted, e)
  /\ UNCHANGED <<op, opts, aborted, abortAt, state, submits, refetches, observed,
                 lateTerminal, metricsFailed>>

\* a cancel request whose failure is not caught: it replaces the error being thrown
CancelSettlesUncaught ==
  /\ UNCHANGED <<resultVars, mergeVars, mapperVars, httpVars, calls, raised, streamVars, rowVars, statusError>>
  /\ op = "exec" /\ cancelReq = "inflight"
  /\ \E r \in {"ok", "failed"} :
       /\ cancelReq' = r
       /\ IF epc \in {"preCancel", "catchCancel"}
            THEN /\ epc' = "done" /\ listener' = FALSE
                 /\ outcome' = (IF r = "failed" THEN "TransportError" ELSE "AbortError")
                 /\ thrown' = ErrorFields(outcome', statusError')
            ELSE UNCHANGED <<epc, outcome, thrown, listener>>
  /\ UNCHANGED <<op, opts, aborted, abortAt, state, cancelIssued, cancelCount, submits,
                 refetches, metricsReqs, observed, progress, lateTerminal, metricsFailed>>

\* the cancel request settles; its failure is caught and logged
CancelSettles ==
  /\ UNCHANGED <<resultVars, mergeVars, mapperVars, httpVars, calls, raised, streamVars, rowVars, statusError>>
  /\ op = "exec" /\ cancelReq = "inflight"
  /\ \E r \in {"ok", "failed"} : cancelReq' = r
  /\ IF epc \in {"preCancel", "catchCancel"}
       THEN epc' = "done" /\ outcome' = "AbortError" /\ listener' = FALSE
            /\ thrown' = ErrorFields("AbortError", statusError')
       ELSE UNCHANGED <<epc, outcome, thrown, listener>>
  /\ UNCHANGED <<op, opts, aborted, abortAt, state, cancelIssued, cancelCount, submits,
                 refetches, metricsReqs, observed, progress, lateTerminal, metricsFailed>>


\* ===================================================== validateSucceededResult
\* a validation that looks for the manifest before it looks at the state
validateManifestFirst(st, mf) ==
  IF ~mf THEN "MISSING_MANIFEST"
  ELSE IF st # "SUCCEEDED" THEN "INVALID_STATE"
  ELSE "ok"

\* validateSucceededResult: the code of the error it throws, "ok" when it returns the
\* manifest
validateSucceededResult(st, mf) ==
  IF st # "SUCCEEDED" THEN "INVALID_STATE"
  ELSE IF ~mf THEN "MISSING_MANIFEST"
  ELSE "ok"

\* ============================================================ fetchStream
\* an ExternalLinkInfo: its chunk_index, one of the manifest's chunks, and whether
\* external_link is the empty string
Link == [chunk_index : 0..(IF total = 0 THEN 0 ELSE total - 1), empty : BOOLEAN]

\* the link lists of at most n links
LinkLists(n) == UNION {[1..m -> Link] : m \in 0..n}

\* Map.has
Has(map, k) == \E e \in 1..Len(map) : map[e].key = k

\* Map.get(k).push(u), or Map.set(k, [u]) for a new key
AddLink(map, k, u) ==
  IF Has(map, k)
    THEN [e \in 1..Len(map) |->
            IF map[e].key = k
              THEN [key |-> k, links |-> Append(map[e].links, u)]
              ELSE map[e]]
    ELSE Append(map, [key |-> k, links |-> <<u>>])

\* addChunkLinks without the isNonEmptyString test
RECURSIVE addChunkLinksKeepingEmpty(_, _, _)
addChunkLinksKeepingEmpty(map, links, base) ==
  IF links = <<>>
    THEN map
    ELSE addChunkLinksKeepingEmpty(AddLink(map, Head(links).chunk_index, base + 1),
                                   Tail(links), base + 1)

\* addChunkLinks: every link with a non-empty URL, in list order; base links came before
RECURSIVE addChunkLinks(_, _, _)
addChunkLinks(map, links, base) ==
  IF links = <<>>
    THEN map
    ELSE addChunkLinks(IF Head(links).empty
                         THEN map
                         ELSE AddLink(map, Head(links).chunk_index, base + 1),
                       Tail(links), base + 1)

\* the comparator reversed (b - a): descending keys
RECURSIVE InsertByKeyDescending(_, _)
InsertByKeyDescending(e, sorted) ==
  IF sorted = <<>> THEN <<e>>
  ELSE IF Head(sorted).key >= e.key
    THEN <<Head(sorted)>> \o InsertByKeyDescending(e, Tail(sorted))
    ELSE <<e>> \o sorted

\* one step of the stable sort by key: e goes after the entries whose key is not larger
RECURSIVE InsertByKey(_, _)
InsertByKey(e, sorted) ==
  IF sorted = <<>> THEN <<e>>
  ELSE IF Head(sorted).key <= e.key
    THEN <<Head(sorted)>> \o InsertByKey(e, Tail(sorted))
    ELSE <<e>> \o sorted

\* [...chunkUrls.entries()].sort(([a], [b]) => a - b)
RECURSIVE SortEntries(_)
SortEntries(map) ==
  IF map = <<>> THEN <<>>
  ELSE InsertByKey(map[Len(map)], SortEntries(SubSeq(map, 1, Len(map) - 1)))

RECURSIVE ConcatLinks(_)
ConcatLinks(entries) ==
  IF entries = <<>> THEN <<>> ELSE Head(entries).links \o ConcatLinks(Tail(entries))

\* flattenChunkUrls that forgets the sort: the Map's insertion order
flattenInsertionOrder(map) == ConcatLinks(map)

\* flattenChunkUrls
flattenChunkUrls(map) == ConcatLinks(SortEntries(map))

\* a loop without the chunkUrls.has(i) test: every index is requested
NextIndexNoSkip(map, i, n) == IF i >= n THEN n ELSE i

\* the first i' >= i the loop of collectExternalUrls does not skip (n when there is none)
RECURSIVE NextMissing(_, _, _)
NextMissing(map, i, n) ==
  IF i >= n THEN n
  ELSE IF Has(map, i) THEN NextMissing(map, i + 1, n)
  ELSE i

\* a destroy that leaves the output as it is
DestroyOutIgnored(o, err) == out' = o /\ UNCHANGED outErr

\* output.destroy(err) on an output in state o
DestroyOut(o, err) ==
  IF o \in {"open", "ended"}
    THEN out' = "errored" /\ outErr' = err
    ELSE out' = o /\ UNCHANGED outErr

\* collectExternalUrls that takes a manifest of zero chunks for one of one chunk
CollectFromAtLeastOneChunk(map, i, o) ==
  LET n == IF total = 0 THEN 1 ELSE total
      j == NextMissing(map, i, n) IN
  /\ ci' = j
  /\ IF j >= n
       THEN /\ spc' = "resolved"
            /\ urls' = flattenChunkUrls(map)
            /\ out' = o
            /\ UNCHANGED <<chunkReqs, outErr>>
       ELSE IF aborted
         THEN /\ spc' = "closed"
              /\ DestroyOut(o, "AbortError")
              /\ UNCHANGED <<chunkReqs, urls>>
         ELSE /\ spc' = "getChunk"
              /\ chunkReqs' = Append(chunkReqs, j)
              /\ out' = o
              /\ UNCHANGED <<urls, outErr>>

\* the loop of collectExternalUrls from index i on, up to its next await or its return;
\* a throw rejects mergeChunksToStream, whose catch destroys the output
CollectFrom(map, i, o) ==
  LET j == NextMissing(map, i, total) IN
  /\ ci' = j
  /\ IF j >= total
       THEN /\ spc' = "resolved"
            /\ urls' = flattenChunkUrls(map)
            /\ out' = o
            /\ UNCHANGED <<chunkReqs, outErr>>
       ELSE IF aborted
         THEN /\ spc' = "closed"
              /\ DestroyOut(o, "AbortError")
              /\ UNCHANGED <<chunkReqs, urls>>
         ELSE /\ spc' = "getChunk"
              /\ chunkReqs' = Append(chunkReqs, j)
              /\ out' = o
              /\ UNCHANGED <<urls, outErr>>

\* fetchStream up to its return: the output is created and mergeChunksToStream runs
\* to its first await
OpenStream ==
  /\ disc' = payload
  /\ chunkUrls' = addChunkLinks(<<>>, payload, 0)
  /\ CollectFrom(chunkUrls', 0, "open")
  /\ UNCHANGED <<path, handed, mergeFormat, wi, written, failure>>

\* fetchStream throws a DatabricksSqlError of the given code: no stream is created
StreamThrows(code) ==
  /\ spc' = "closed"
  /\ outcome' = "DatabricksSqlError"
  /\ thrown' = [code |-> code, message |-> code, statementId |-> TRUE]
  /\ UNCHANGED <<disc, chunkUrls, ci, chunkReqs, urls, path, handed, wi, out, outErr,
                 written, mergeFormat, failure>>

\* fetchStream: the validation, the data_array test, then the stream
FetchStreamCall ==
  /\ op = "stream" /\ spc = "idle"
  /\ LET v == validateSucceededResult(rstate, manifest) IN
       IF v # "ok" THEN StreamThrows(v)
       ELSE IF kind = "inline" THEN StreamThrows("UNSUPPORTED_FORMAT")
       ELSE OpenStream /\ UNCHANGED <<outcome, thrown>>
  /\ UNCHANGED <<op, opts, aborted, abortAt, execVars, resultVars, mergeVars, mapperVars, httpVars, calls, raised, rowVars>>

\* a loop of collectExternalUrls without the signal test before getChunk
ChunkRespondsUnchecked ==
  /\ spc = "getChunk"
  /\ \E links \in LinkLists(MaxLinks - Len(disc)) :
       /\ disc' = disc \o links
       /\ chunkUrls' = addChunkLinks(chunkUrls, links, Len(disc))
       /\ LET j == NextMissing(chunkUrls', ci + 1, total) IN
          /\ ci' = j
          /\ IF j >= total
               THEN spc' = "resolved" /\ urls' = flattenChunkUrls(chunkUrls')
                    /\ UNCHANGED chunkReqs
               ELSE spc' = "getChunk" /\ chunkReqs' = Append(chunkReqs, j)
                    /\ UNCHANGED urls
          /\ UNCHANGED <<out, outErr>>
  /\ UNCHANGED <<path, handed, mergeFormat, wi, written, failure>>
  /\ UNCHANGED <<op, opts, aborted, abortAt, outcome, thrown, execVars, resultVars, mergeVars,
                 mapperVars, httpVars, calls, raised, rowVars>>

\* a chunk-metadata response arrives (also when the abort did not stop the request)
ChunkResponds ==
  /\ spc = "getChunk"
  /\ \E links \in LinkLists(MaxLinks - Len(disc)) :
       /\ disc' = disc \o links
       /\ chunkUrls' = addChunkLinks(chunkUrls, links, Len(disc))
       /\ CollectFrom(chunkUrls', ci + 1, out)
  /\ UNCHANGED <<path, handed, mergeFormat, wi, written, failure>>
  /\ UNCHANGED <<op, opts, aborted, abortAt, outcome, thrown, execVars, resultVars, mergeVars, mapperVars, httpVars, calls, raised, rowVars>>

\* getChunk rejects; the catch of fetchStream destroys the output with the error
ChunkFails ==
  /\ spc = "getChunk"
  /\ spc' = "closed"
  /\ \E e \in Rejections :
       raised' = e /\ DestroyOut(out, e) /\ failure' = e
  /\ UNCHANGED <<disc, chunkUrls, ci, chunkReqs, urls, path, handed, mergeFormat, wi, written>>
  /\ UNCHANGED <<op, opts, aborted, abortAt, outcome, thrown, execVars, resultVars, mergeVars, mapperVars, httpVars, calls, rowVars>>

\* mergeChunksToStream that pipes a single URL whatever forceMerge says
DeliverIgnoringForceMerge ==
  /\ spc = "resolved"
  /\ IF Len(urls) = 0
       THEN /\ spc' = "closed"
            /\ path' = "end"
            /\ out' = (IF out = "open" THEN "ended" ELSE out)
            /\ UNCHANGED <<handed, mergeFormat, outErr>>
       ELSE IF Len(urls) = 1
         THEN IF aborted
                THEN /\ spc' = "closed"
                     /\ DestroyOut(out, "AbortError")
                     /\ UNCHANGED <<path, handed, mergeFormat>>
                ELSE /\ spc' = "pipeFetch"
                     /\ path' = "pipe"
                     /\ handed' = urls
                     /\ UNCHANGED <<out, outErr, mergeFormat>>
         ELSE /\ spc' = "writing"
              /\ path' = "merge"
              /\ handed' = urls
              /\ mergeFormat' = format
              /\ UNCHANGED <<out, outErr>>
  /\ UNCHANGED <<disc, chunkUrls, ci, chunkReqs, urls, wi, written, failure>>
  /\ UNCHANGED <<op, opts, aborted, abortAt, outcome, thrown, execVars, resultVars, mergeVars, mapperVars, httpVars, calls, raised, rowVars>>

\* mergeChunksToStream after collectExternalUrls: end, direct pipe, or merge engine
Deliver ==
  /\ spc = "resolved"
  /\ IF Len(urls) = 0
       THEN /\ spc' = "closed"
            /\ path' = "end"
            /\ out' = (IF out = "open" THEN "ended" ELSE out)
            /\ UNCHANGED <<handed, mergeFormat, outErr>>
       ELSE IF Len(urls) = 1 /\ ~opts.forceMerge
         THEN IF aborted
                THEN /\ spc' = "closed"
                     /\ DestroyOut(out, "AbortError")
                     /\ UNCHANGED <<path, handed, mergeFormat>>
                ELSE /\ spc' = "pipeFetch"
                     /\ path' = "pipe"
                     /\ handed' = urls
                     /\ UNCHANGED <<out, outErr, mergeFormat>>
         ELSE /\ spc' = "writing"
              /\ path' = "merge"
              /\ handed' = urls
              /\ mergeFormat' = format
              /\ UNCHANGED <<out, outErr>>
  /\ UNCHANGED <<disc, chunkUrls, ci, chunkReqs, urls, wi, written, failure>>
  /\ UNCHANGED <<op, opts, aborted, abortAt, outcome, thrown, execVars, resultVars, mergeVars, mapperVars, httpVars, calls, raised, rowVars>>

\* pipeUrlToOutput that ends the output when the fetch fails, as it does for a response
\* without body
PipeFetchSettlesEndsOnFailure ==
  /\ spc = "pipeFetch"
  /\ \E r \in {"ok", "notOk", "rejected"} :
       IF r = "ok"
         THEN spc' = "writing" /\ UNCHANGED <<out, outErr, failure>>
         ELSE LET e == IF r = "notOk" THEN "Error"
                       ELSE IF aborted THEN "DOMAbortError"
                       ELSE "TransportError" IN
              /\ spc' = "closed"
              /\ out' = (IF out = "open" THEN "ended" ELSE out)
              /\ UNCHANGED outErr
              /\ failure' = e
  /\ UNCHANGED <<disc, chunkUrls, ci, chunkReqs, urls, path, handed, mergeFormat, wi, written>>
  /\ UNCHANGED <<op, opts, aborted, abortAt, outcome, thrown, execVars, resultVars, mergeVars, mapperVars, httpVars, calls, raised, rowVars>>

\* pipeUrlToOutput: the fetch of the single URL settles
PipeFetchSettles ==
  /\ spc = "pipeFetch"
  /\ \E r \in {"ok", "notOk", "rejected"} :
       IF r = "ok"
         THEN spc' = "writing" /\ UNCHANGED <<out, outErr, failure>>
         ELSE LET e == IF r = "notOk" THEN "Error"
                       ELSE IF aborted THEN "DOMAbortError"
                       ELSE "TransportError" IN
              /\ spc' = "closed"
              /\ DestroyOut(out, e)
              /\ failure' = e
  /\ UNCHANGED <<disc, chunkUrls, ci, chunkReqs, urls, path, handed, mergeFormat, wi, written>>
  /\ UNCHANGED <<op, opts, aborted, abortAt, outcome, thrown, execVars, resultVars, mergeVars, mapperVars, httpVars, calls, raised, rowVars>>

\* the rows stored behind URL u
RowsOf(u) == [r \in 1..RowsPerUrl |-> <<disc[u].chunk_index, u, r>>]

\* the pipeline, or the merge engine, writes the body of the next URL it was handed
WriteUrl ==
  /\ spc = "writing" /\ out = "open" /\ wi < Len(handed)
  /\ written' = written \o RowsOf(handed[wi + 1])
  /\ wi' = wi + 1
  /\ UNCHANGED <<spc, disc, chunkUrls, ci, chunkReqs, urls, path, handed, mergeFormat, out,
                 outErr, failure>>
  /\ UNCHANGED <<op, opts, aborted, abortAt, outcome, thrown, execVars, resultVars, mergeVars, mapperVars, httpVars, calls, raised, rowVars>>

\* ... ends the output after the last body, stops when the output is gone, or fails
WriteSettles ==
  /\ spc = "writing"
  /\ spc' = "closed"
  /\ \/ /\ out = "open" /\ wi = Len(handed)
        /\ out' = "ended" /\ UNCHANGED <<outErr, failure>>
     \/ /\ out # "open"
        /\ UNCHANGED <<out, outErr, failure>>
     \/ /\ out = "open"
        /\ DestroyOut(out, "Error")
        /\ failure' = "Error"
  /\ UNCHANGED <<disc, chunkUrls, ci, chunkReqs, urls, path, handed, mergeFormat, wi, written>>
  /\ UNCHANGED <<op, opts, aborted, abortAt, outcome, thrown, execVars, resultVars, mergeVars, mapperVars, httpVars, calls, raised, rowVars>>

\* the consumer of fetchStream's stream has read it to its end; the stream closes
StreamDrained ==
  /\ op \in {"stream", "merge"} /\ out = "ended"
  /\ out' = "closed"
  /\ UNCHANGED <<spc, disc, chunkUrls, ci, chunkReqs, urls, path, handed, mergeFormat, wi, outErr,
                 written, failure>>
  /\ UNCHANGED <<op, opts, aborted, abortAt, outcome, thrown, execVars, resultVars, mergeVars, mapperVars, httpVars, calls, raised, rowVars>>

StreamNext ==
  \/ FetchStreamCall \/ ChunkResponds \/ ChunkFails \/ Deliver \/ PipeFetchSettles
  \/ WriteUrl \/ WriteSettles \/ StreamDrained

StreamInit ==
  /\ spc = "idle" /\ disc = <<>> /\ chunkUrls = <<>> /\ ci = 0 /\ chunkReqs = <<>>
  /\ urls = <<>> /\ path = "none" /\ handed = <<>> /\ wi = 0
  /\ out = "none" /\ outErr = "none" /\ written = <<>>
  /\ mergeFormat = "none" /\ failure = "none"


\* =============================================================== fetchRow
\* fetchAll's onEachRow: rows.push(row); r is what fetchRow passes to the callback
OnEachRow(r) ==
  /\ delivered' = Append(delivered, r)
  /\ rows' = Append(rows, r)

\* fetchRow is still running: fetchAll waits
FetchAllWaits == UNCHANGED <<returned, allOutcome>>

\* a fetchAll that catches the rejection of fetchRow and returns what it has collected
FetchAllSettlesKeepingRows(o) ==
  /\ allOutcome' = "Resolved"
  /\ returned' = rows
  /\ UNCHANGED rows

\* await fetchRow(...); return rows: the rejection of fetchRow is the rejection of
\* fetchAll, which then returns nothing
FetchAllSettles(o) ==
  /\ allOutcome' = o
  /\ returned' = (IF o = "Resolved" THEN rows ELSE <<>>)
  /\ UNCHANGED rows

\* fetchRow settles with o
RowSettles(o) ==
  /\ rpc' = "done" /\ outcome' = o /\ thrown' = ErrorFields(o, "absent")
  /\ FetchAllSettles(o)

\* fetchRow rejects with a DatabricksSqlError of the given code
RowThrows(code) ==
  /\ rpc' = "done"
  /\ outcome' = "DatabricksSqlError"
  /\ thrown' = [code |-> code, message |-> code, statementId |-> TRUE]
  /\ FetchAllSettles("DatabricksSqlError")

\* fetchRow that hands an external-link result of any format to fetchStream
FetchRowCallAnyFormat ==
  /\ op = "row" /\ rpc = "idle"
  /\ UNCHANGED received
  /\ LET v == validateSucceededResult(rstate, manifest) IN
       IF v # "ok"
         THEN RowThrows(v) /\ UNCHANGED <<ri, curRows, streamVars>>
       ELSE IF kind = "external"
         THEN /\ OpenStream
              /\ rpc' = "consume"
              /\ UNCHANGED <<ri, curRows, outcome, thrown, rows>>
              /\ FetchAllWaits
         ELSE /\ rpc' = "rows"
              /\ curRows' = (IF kind = "inline" THEN inlineRows ELSE 0)
              /\ ri' = 0
              /\ UNCHANGED <<streamVars, outcome, thrown, rows>>
              /\ FetchAllWaits
  /\ UNCHANGED <<op, opts, aborted, abortAt, execVars, resultVars, mergeVars, mapperVars, httpVars, calls, raised, delivered>>

\* fetchRow up to its first await: the validation; an external-link result must be
\* JSON_ARRAY, its stream is opened and consumed; otherwise the rows of data_array are
\* visited first
FetchRowCall ==
  /\ op = "row" /\ rpc = "idle"
  /\ UNCHANGED received
  /\ LET v == validateSucceededResult(rstate, manifest) IN
       IF v # "ok"
         THEN RowThrows(v) /\ UNCHANGED <<ri, curRows, streamVars>>
       ELSE IF kind = "external"
         THEN IF format # "JSON_ARRAY"
                THEN RowThrows("UNSUPPORTED_FORMAT") /\ UNCHANGED <<ri, curRows, streamVars>>
                ELSE /\ OpenStream
                     /\ rpc' = "consume"
                     /\ UNCHANGED <<ri, curRows, outcome, thrown, rows>>
                     /\ FetchAllWaits
         ELSE /\ rpc' = "rows"
              /\ curRows' = (IF kind = "inline" THEN inlineRows ELSE 0)
              /\ ri' = 0
              /\ UNCHANGED <<streamVars, outcome, thrown, rows>>
              /\ FetchAllWaits
  /\ UNCHANGED <<op, opts, aborted, abortAt, execVars, resultVars, mergeVars, mapperVars, httpVars, calls, raised, delivered>>

\* a row loop that walks the chunk from its last row to its first
InlineRowFromEnd ==
  /\ op = "row" /\ rpc = "rows" /\ ri < curRows
  /\ UNCHANGED received
  /\ IF aborted
       THEN RowSettles("AbortError") /\ UNCHANGED <<ri, delivered>>
       ELSE /\ OnEachRow(<<ci, 0, curRows - ri>>)
            /\ ri' = ri + 1
            /\ UNCHANGED <<rpc, outcome, thrown>>
            /\ FetchAllWaits
  /\ UNCHANGED <<op, opts, aborted, abortAt, execVars, resultVars, mergeVars, mapperVars, httpVars, calls, raised, streamVars, curRows>>

\* one turn of a row loop: the abort check, then onEachRow(mapRow(row))
InlineRow ==
  /\ op = "row" /\ rpc = "rows" /\ ri < curRows
  /\ UNCHANGED received
  /\ IF aborted
       THEN RowSettles("AbortError") /\ UNCHANGED <<ri, delivered>>
       ELSE /\ OnEachRow(<<ci, 0, ri + 1>>)
            /\ ri' = ri + 1
            /\ UNCHANGED <<rpc, outcome, thrown>>
            /\ FetchAllWaits
  /\ UNCHANGED <<op, opts, aborted, abortAt, execVars, resultVars, mergeVars, mapperVars, httpVars, calls, raised, streamVars, curRows>>

\* a loop that steps by two
NextChunkIndexSkipping(c) == c + 2

\* for (let chunkIndex = 1; chunkIndex < totalChunks; chunkIndex++): the index after c
NextChunkIndex(c) == c + 1

\* the rows of the current chunk are done: the next chunk is requested, or fetchRow returns
InlineNext ==
  /\ op = "row" /\ rpc = "rows" /\ ri = curRows
  /\ UNCHANGED received
  /\ IF total > 1 /\ NextChunkIndex(ci) < total
       THEN IF aborted
              THEN RowSettles("AbortError") /\ UNCHANGED <<ci, chunkReqs>>
              ELSE /\ rpc' = "getChunk"
                   /\ ci' = NextChunkIndex(ci)
                   /\ chunkReqs' = Append(chunkReqs, NextChunkIndex(ci))
                   /\ UNCHANGED <<outcome, thrown, rows>>
                   /\ FetchAllWaits
       ELSE RowSettles("Resolved") /\ UNCHANGED <<ci, chunkReqs>>
  /\ UNCHANGED <<spc, disc, chunkUrls, urls, path, handed, mergeFormat, wi, out, outErr,
                 written, failure>>
  /\ UNCHANGED <<op, opts, aborted, abortAt, execVars, resultVars, mergeVars, mapperVars, httpVars, calls, raised, ri, curRows, delivered>>

\* a chunk with external_links is taken for a chunk without rows
InlineChunkRespondsIgnoringLinks ==
  /\ op = "row" /\ rpc = "getChunk"
  /\ \E c \in {"external_links", "data_array", "neither"}, n \in 0..MaxRows :
       /\ c # "data_array" => n = 0
       /\ received' = Append(received, [chunk_index |-> ci, kind |-> c, rows |-> n])
       /\ rpc' = "rows"
       /\ curRows' = n
       /\ ri' = 0
       /\ UNCHANGED <<outcome, thrown, rows>>
       /\ FetchAllWaits
  /\ UNCHANGED <<op, opts, aborted, abortAt, execVars, resultVars, mergeVars, mapperVars, httpVars, calls, raised, streamVars, delivered>>

\* the chunk arrives: external_links is a format error, data_array is visited next
InlineChunkResponds ==
  /\ op = "row" /\ rpc = "getChunk"
  /\ \E c \in {"external_links", "data_array", "neither"}, n \in 0..MaxRows :
       /\ c # "data_array" => n = 0
       /\ received' = Append(received, [chunk_index |-> ci, kind |-> c, rows |-> n])
       /\ IF c = "external_links"
            THEN RowThrows("UNSUPPORTED_FORMAT") /\ UNCHANGED <<ri, curRows>>
            ELSE /\ rpc' = "rows"
                 /\ curRows' = n
                 /\ ri' = 0
                 /\ UNCHANGED <<outcome, thrown, rows>>
                 /\ FetchAllWaits
  /\ UNCHANGED <<op, opts, aborted, abortAt, execVars, resultVars, mergeVars, mapperVars, httpVars, calls, raised, streamVars, delivered>>

\* getChunk rejects: the error reaches the caller of fetchRow as it is
InlineChunkFails ==
  /\ op = "row" /\ rpc = "getChunk"
  /\ UNCHANGED received
  /\ \E e \in Rejections : raised' = e /\ RowSettles(e)
  /\ UNCHANGED <<op, opts, aborted, abortAt, execVars, resultVars, mergeVars, mapperVars, httpVars, calls, streamVars, ri, curRows,
                 delivered>>

\* consumeJsonArrayStream: the next parsed row; the abort check, then onEachRow
ConsumeRow ==
  /\ op = "row" /\ rpc = "consume" /\ Len(delivered) < Len(written)
  /\ UNCHANGED received
  /\ IF aborted
       THEN /\ RowSettles("AbortError")
            /\ DestroyOut(out, "AbortError")
            /\ UNCHANGED delivered
       ELSE /\ OnEachRow(written[Len(delivered) + 1])
            /\ UNCHANGED <<rpc, outcome, thrown, out, outErr>>
            /\ FetchAllWaits
  /\ UNCHANGED <<spc, disc, chunkUrls, ci, chunkReqs, urls, path, handed, mergeFormat, wi,
                 written, failure>>
  /\ UNCHANGED <<op, opts, aborted, abortAt, execVars, resultVars, mergeVars, mapperVars, httpVars, calls, raised, ri, curRows>>

\* the parsed stream ends after its last row
ConsumeEnd ==
  /\ op = "row" /\ rpc = "consume" /\ out = "ended" /\ Len(delivered) = Len(written)
  /\ UNCHANGED received
  /\ RowSettles("Resolved")
  /\ out' = "closed"
  /\ UNCHANGED <<spc, disc, chunkUrls, ci, chunkReqs, urls, path, handed, mergeFormat, wi, outErr,
                 written, failure>>
  /\ UNCHANGED <<op, opts, aborted, abortAt, execVars, resultVars, mergeVars, mapperVars, httpVars, calls, raised, ri, curRows, delivered>>

RowNext ==
  \/ FetchRowCall \/ InlineRow \/ InlineNext \/ InlineChunkResponds \/ InlineChunkFails
  \/ ConsumeRow \/ ConsumeEnd

RowInit ==
  /\ rpc = "idle" /\ ri = 0 /\ curRows = 0 /\ delivered = <<>>
  /\ rows = <<>> /\ returned = <<>> /\ allOutcome = "none"
  /\ received = <<>>

\* ====================================================== mergeExternalLinks
\* what mergeStreamToExternalLink resolves with: externalLink, byte_count, expiration
UploadResults == [externalLink : {"uploadResult.externalLink"}, byte_count : {0, 9},
                  expiration : {"uploadResult.expiration"}]

\* a result built with the chunk count of the input manifest left in place
NewResultKeepingChunkCount(d) ==
  LET totalRows == IF totalRowCount = <<>> THEN 0 ELSE totalRowCount[1] IN
  [statement_id |-> "statement_id",
   status |-> rstate,
   manifest |-> [format |-> format, schema |-> "schema", total_row_count |-> totalRowCount,
                 total_chunk_count |-> total,
                 total_byte_count |-> d.byte_count,
                 chunks |-> <<[chunk_index |-> 0, row_offset |-> 0, row_count |-> totalRows,
                               byte_count |-> d.byte_count]>>],
   result |-> [external_links |->
                 <<[chunk_index |-> 0, row_offset |-> 0, row_count |-> totalRows,
                    byte_count |-> d.byte_count, external_link |-> d.externalLink,
                    expiration |-> d.expiration]>>]]

\* the StatementResult built from the input result and the upload descriptor d
NewResult(d) ==
  LET totalRows == IF totalRowCount = <<>> THEN 0 ELSE totalRowCount[1] IN
  [statement_id |-> "statement_id",
   status |-> rstate,
   manifest |-> [format |-> format, schema |-> "schema", total_row_count |-> totalRowCount,
                 total_chunk_count |-> 1,
                 total_byte_count |-> d.byte_count,
                 chunks |-> <<[chunk_index |-> 0, row_offset |-> 0, row_count |-> totalRows,
                               byte_count |-> d.byte_count]>>],
   result |-> [external_links |->
                 <<[chunk_index |-> 0, row_offset |-> 0, row_count |-> totalRows,
                    byte_count |-> d.byte_count, external_link |-> d.externalLink,
                    expiration |-> d.expiration]>>]]

\* a test that takes a result of one chunk for a result of several
isSingleChunkStrict(totalChunks) == totalChunks < 1

\* const isSingleChunk = totalChunks <= 1
isSingleChunk(totalChunks) == totalChunks <= 1

\* mergeExternalLinks settles with o, without a new result
MergeSettles(o) ==
  /\ mpc' = "done"
  /\ outcome' = o
  /\ thrown' = NoError
  /\ UNCHANGED <<uploads, merged, uploadOutcome>>

\* a mergeExternalLinks that validates the result before anything else
MergeCallValidatingFirst ==
  /\ op = "merge" /\ mpc = "idle"
  /\ UNCHANGED <<round, produced>>
  /\ LET v == validateSucceededResult(rstate, manifest) IN
       IF v # "ok"
         THEN /\ mpc' = "done"
              /\ outcome' = "DatabricksSqlError"
              /\ thrown' = [code |-> v, message |-> v, statementId |-> TRUE]
              /\ UNCHANGED <<uploads, merged, uploadOutcome, streamVars>>
       ELSE IF kind # "external" \/ (~opts.forceMerge /\ isSingleChunk(total))
         THEN MergeSettles("Original") /\ UNCHANGED streamVars
         ELSE /\ OpenStream
              /\ uploads' = uploads + 1
              /\ mpc' = "upload"
              /\ UNCHANGED <<outcome, thrown, merged, uploadOutcome>>
  /\ UNCHANGED <<op, opts, aborted, abortAt, execVars, resultVars, rowVars, mapperVars, httpVars, calls, raised>>

\* mergeExternalLinks up to its await: the input is returned when it has no
\* external_links, or when forceMerge is off and the manifest has at most one chunk;
\* otherwise fetchStream is called (it validates the result) and its stream is
\* passed to mergeStreamToExternalLink
MergeCall ==
  /\ op = "merge" /\ mpc = "idle"
  /\ UNCHANGED <<round, produced>>
  /\ IF kind # "external"
       THEN MergeSettles("Original") /\ UNCHANGED streamVars
       ELSE IF ~opts.forceMerge /\ isSingleChunk(total)
         THEN MergeSettles("Original") /\ UNCHANGED streamVars
         ELSE LET v == validateSucceededResult(rstate, manifest) IN
              IF v # "ok"
                THEN /\ mpc' = "done"
                     /\ outcome' = "DatabricksSqlError"
                     /\ thrown' = [code |-> v, message |-> v, statementId |-> TRUE]
                     /\ UNCHANGED <<uploads, merged, uploadOutcome, streamVars>>
                ELSE /\ OpenStream
                     /\ uploads' = uploads + 1
                     /\ mpc' = "upload"
                     /\ UNCHANGED <<outcome, thrown, merged, uploadOutcome>>
  /\ UNCHANGED <<op, opts, aborted, abortAt, execVars, resultVars, rowVars, mapperVars, httpVars, calls, raised>>

\* a mergeExternalLinks that catches the rejection of the callback and returns its input
UploadSettlesReturningInput ==
  /\ op = "merge" /\ mpc = "upload"
  /\ UNCHANGED <<round, produced>>
  /\ out \in {"closed", "errored"}
  /\ \/ \E e \in {"UploadError"} \cup (IF out = "errored" THEN {outErr} ELSE {}) :
          /\ uploadOutcome' = e
          /\ mpc' = "done"
          /\ outcome' = "Original"
          /\ UNCHANGED <<thrown, uploads, merged>>
     \/ \E d \in UploadResults :
          /\ out = "closed"
          /\ validateSucceededResult(rstate, manifest) = "ok"
          /\ uploadOutcome' = "resolved"
          /\ mpc' = "done"
          /\ outcome' = "Merged"
          /\ merged' = <<NewResult(d)>>
          /\ UNCHANGED <<thrown, uploads>>
  /\ UNCHANGED <<op, opts, aborted, abortAt, execVars, resultVars, streamVars, rowVars,
                 mapperVars, httpVars, calls, raised>>

\* await mergeStreamToExternalLink(stream) settles.  The callback consumes the stream
\* until it has closed.  It rejects with the error of a stream that was destroyed or
\* with a failure of its own, and nothing catches its rejection; it resolves when it
\* has read the stream to its end, and with its descriptor the result is validated
\* and rebuilt
UploadSettles ==
  /\ op = "merge" /\ mpc = "upload"
  /\ UNCHANGED <<round, produced>>
  /\ out \in {"closed", "errored"}
  /\ \/ \E e \in {"UploadError"} \cup (IF out = "errored" THEN {outErr} ELSE {}) :
          /\ uploadOutcome' = e
          /\ mpc' = "done"
          /\ outcome' = e
          /\ thrown' = ErrorFields(e, "absent")
          /\ UNCHANGED <<uploads, merged>>
     \/ \E d \in UploadResults :
          /\ out = "closed"
          /\ validateSucceededResult(rstate, manifest) = "ok"
          /\ uploadOutcome' = "resolved"
          /\ mpc' = "done"
          /\ outcome' = "Merged"
          /\ merged' = <<NewResult(d)>>
          /\ UNCHANGED <<thrown, uploads>>
  /\ UNCHANGED <<op, opts, aborted, abortAt, execVars, resultVars, streamVars, rowVars,
                 mapperVars, httpVars, calls, raised>>

\* what a call reads of the StatementResult r it is given: result.external_links,
\* manifest.total_chunk_count, and the status, manifest, format and row count that
\* validateSucceededResult and the new result take from it
ReadResult(r) ==
  /\ kind' = "external"
  /\ payload' = [k \in 1..Len(r.result.external_links) |->
                   [chunk_index |-> r.result.external_links[k].chunk_index,
                    empty |-> r.result.external_links[k].external_link = ""]]
  /\ total' = r.manifest.total_chunk_count
  /\ inlineRows' = 0
  /\ rstate' = r.status
  /\ manifest' = TRUE
  /\ format' = r.manifest.format
  /\ totalRowCount' = r.manifest.total_row_count

\* mergeExternalLinks is called on the result an earlier call has returned, with or
\* without forceMerge and with the same signal
MergeAgain ==
  /\ op = "merge" /\ mpc = "done" /\ outcome = "Merged" /\ round < MaxCalls
  /\ \E f \in BOOLEAN : opts' = [opts EXCEPT !.forceMerge = f]
  /\ round' = round + 1
  /\ produced' = merged
  /\ ReadResult(merged[1])
  /\ mpc' = "idle" /\ outcome' = "none" /\ uploadOutcome' = "none"
  /\ uploads' = 0 /\ merged' = <<>>
  /\ spc' = "idle" /\ disc' = <<>> /\ chunkUrls' = <<>> /\ ci' = 0 /\ chunkReqs' = <<>>
  /\ urls' = <<>> /\ path' = "none" /\ handed' = <<>> /\ wi' = 0
  /\ out' = "none" /\ outErr' = "none" /\ written' = <<>>
  /\ mergeFormat' = "none" /\ failure' = "none"
  /\ UNCHANGED <<op, aborted, abortAt, thrown, execVars, rowVars, mapperVars, httpVars, calls, raised>>

MergeNext == MergeCall \/ UploadSettles \/ MergeAgain

MergeInit ==
  /\ mpc = "idle" /\ uploads = 0 /\ merged = <<>> /\ uploadOutcome = "none"
  /\ round = 1 /\ produced = <<>>

\* ============================================================ createRowMapper
\* A JavaScript value is a record tagged by t: null, undefined, num (a double),
\* big (a bigint), str, obj (name -> value), arr.  A string is described by what the
\* parsers make of it (k): "dec" is the decimal string of an integer, sign and digits;
\* "json" is the JSON text of an object or an array; "bad" is text that JSON.parse,
\* BigInt and Number all refuse.  JSON text is the tree it denotes (tag j), with the
\* integer literal of a number kept exact: it is JSON.parse that makes a double of it.
MantissaBits == 3    \* bits of the significand of a double (53 in IEEE 754, scaled down)
MaxDecodes == 3      \* calls of one row mapper

RECURSIVE Pow2(_)
Pow2(k) == IF k = 0 THEN 1 ELSE 2 * Pow2(k - 1)

Abs(n) == IF n < 0 THEN -n ELSE n

\* the power of two that separates neighbouring doubles at magnitude m
RECURSIVE Ulp(_, _)
Ulp(m, u) == IF m < Pow2(MantissaBits) * u THEN u ELSE Ulp(m, 2 * u)

\* the double nearest to the integer n, ties to the even significand
ToDouble(n) ==
  LET m == Abs(n)
      u == Ulp(m, 1)
      q == m \div u
      r == m % u
      s == IF 2 * r > u \/ (2 * r = u /\ q % 2 = 1) THEN q + 1 ELSE q
  IN  (IF n < 0 THEN -1 ELSE 1) * s * u

RECURSIVE DigitsOf(_)
DigitsOf(m) == IF m < 10 THEN <<m>> ELSE Append(DigitsOf(m \div 10), m % 10)

RECURSIVE ParseDigits(_)
ParseDigits(d) ==
  IF d = <<>> THEN 0 ELSE 10 * ParseDigits(SubSeq(d, 1, Len(d) - 1)) + d[Len(d)]

Null == [t |-> "null"]
Undefined == [t |-> "undefined"]
Num(n) == [t |-> "num", n |-> n]
Big(n) == [t |-> "big", n |-> n]
Obj(f) == [t |-> "obj", f |-> f]
Arr(e) == [t |-> "arr", e |-> e]
BadString == [t |-> "str", k |-> "bad"]
JsonString(j) == [t |-> "str", k |-> "json", text |-> j]

\* bigint.toString(), which is also how the service writes a BIGINT
BigIntToString(n) == [t |-> "str", k |-> "dec", neg |-> n < 0, digits |-> DigitsOf(Abs(n))]

\* BigInt(string) of a decimal string
BigIntOf(s) == (IF s.neg THEN -1 ELSE 1) * ParseDigits(s.digits)

\* the outcome of a conversion that threw DatabricksSqlError INVALID_JSON
InvalidJson == [t |-> "throw"]

JNull == [j |-> "null"]
JNum(n) == [j |-> "num", n |-> n]
JStr(s) == [j |-> "str", s |-> s]
JObj(f) == [j |-> "obj", f |-> f]
JArr(e) == [j |-> "arr", e |-> e]

\* JSON.parse of well-formed text
RECURSIVE JSONparse(_)
JSONparse(j) ==
  CASE j.j = "null" -> Null
    [] j.j = "num" -> Num(ToDouble(j.n))
    [] j.j = "str" -> j.s
    [] j.j = "obj" -> Obj([x \in DOMAIN j.f |-> JSONparse(j.f[x])])
    [] j.j = "arr" -> Arr([i \in DOMAIN j.e |-> JSONparse(j.e[i])])

parseJsonValueKeepingRaw(value) ==
  IF value.t # "str" THEN value
  ELSE IF value.k = "bad" THEN value
  ELSE IF value.k = "dec" THEN Num(ToDouble(BigIntOf(value)))
  ELSE JSONparse(value.text)

parseJsonValue(value) ==
  IF value.t # "str" THEN value
  ELSE IF value.k = "bad" THEN InvalidJson
  ELSE IF value.k = "dec" THEN Num(ToDouble(BigIntOf(value)))
  ELSE JSONparse(value.text)

convertNumber(value) ==
  IF value.t = "num" THEN value
  ELSE IF value.t = "str"
       THEN IF value.k = "dec" THEN Num(ToDouble(BigIntOf(value))) ELSE value
  ELSE value

\* options.encodeBigInt applied to a bigint, or the bigint itself
Encoded(n, hook) == IF hook THEN BigIntToString(n) ELSE Big(n)

convertIntegerByNumber(value, hook) ==
  IF value.t = "big" THEN Encoded(value.n, hook)
  ELSE IF value.t = "num" THEN Encoded(value.n, hook)
  ELSE IF value.t = "str"
       THEN IF value.k = "dec" THEN Encoded(ToDouble(BigIntOf(value)), hook) ELSE value
  ELSE value

convertInteger(value, hook) ==
  IF value.t = "big" THEN Encoded(value.n, hook)
  ELSE IF value.t = "num" THEN Encoded(value.n, hook)
  ELSE IF value.t = "str"
       THEN IF value.k = "dec" THEN Encoded(BigIntOf(value), hook) ELSE value
  ELSE value

INTEGER_TYPES == {"TINYINT", "SMALLINT", "INT"}
BIGINT_TYPES == {"BIGINT", "LONG"}

\* some conversion below threw
Threw(vs) == \E v \in vs : v.t = "throw"

\* convertValue with convertStructValue, convertArrayValue and convertMapValue.  The
\* keys of a MAP are names that no key conversion changes; a MAP written as a list
\* holds no pairs here, which leaves the mapped object empty.
RECURSIVE convertValue(_, _, _)
convertValue(descriptor, value, hook) ==
  IF value.t \in {"null", "undefined"} THEN value
  ELSE IF descriptor.typeName = "STRUCT"
  THEN LET raw == parseJsonValue(value)
       IN  IF raw.t = "throw" THEN raw
           ELSE IF raw.t # "obj" THEN value
           ELSE LET names == {descriptor.fields[i].name : i \in DOMAIN descriptor.fields}
                    typeOf(x) == (CHOOSE i \in DOMAIN descriptor.fields :
                                    descriptor.fields[i].name = x)
                    mapped == [x \in names |->
                                 convertValue(descriptor.fields[typeOf(x)].type,
                                              IF x \in DOMAIN raw.f THEN raw.f[x]
                                                                    ELSE Undefined,
                                              hook)]
                IN  IF Threw({mapped[x] : x \in names}) THEN InvalidJson ELSE Obj(mapped)
  ELSE IF descriptor.typeName = "ARRAY"
  THEN LET raw == parseJsonValue(value)
       IN  IF raw.t = "throw" THEN raw
           ELSE IF raw.t # "arr" THEN value
           ELSE LET mapped == [i \in DOMAIN raw.e |->
                                 convertValue(descriptor.elementType, raw.e[i], hook)]
                IN  IF Threw({mapped[i] : i \in DOMAIN raw.e}) THEN InvalidJson
                    ELSE Arr(mapped)
  ELSE IF descriptor.typeName = "MAP"
  THEN LET raw == parseJsonValue(value)
       IN  IF raw.t = "throw" THEN raw
           ELSE IF raw.t \notin {"obj", "arr"} THEN value
           ELSE IF raw.t = "arr" THEN Obj(<<>>)
           ELSE LET mapped == [x \in DOMAIN raw.f |->
                                 convertValue(descriptor.valueType, raw.f[x], hook)]
                IN  IF Threw({mapped[x] : x \in DOMAIN raw.f}) THEN InvalidJson
                    ELSE Obj(mapped)
  ELSE IF descriptor.typeName \in INTEGER_TYPES THEN convertNumber(value)
  ELSE IF descriptor.typeName \in BIGINT_TYPES THEN convertInteger(value, hook)
  ELSE value

\* the type descriptors parseColumnType makes of the columns
Leaf(name) == [typeName |-> name]
StructOf(name, type) == [typeName |-> "STRUCT", fields |-> <<[name |-> name, type |-> type]>>]
ArrayOf(type) == [typeName |-> "ARRAY", elementType |-> type]
MapOf(keyType, valueType) == [typeName |-> "MAP", keyType |-> keyType, valueType |-> valueType]

ContainerTypes ==
  { StructOf("big", Leaf("BIGINT")), ArrayOf(Leaf("LONG")),
    MapOf(Leaf("STRING"), Leaf("BIGINT")),
    StructOf("s", StructOf("big", Leaf("BIGINT"))) }

ColumnTypes == {Leaf("BIGINT"), Leaf("INT"), Leaf("STRING")} \cup ContainerTypes

\* the integers the service sends: small ones, and ones no double holds
Unsafe == Pow2(MantissaBits) + 1
IntValues == {-3, Unsafe, -Unsafe}

\* JSON text of a leaf inside a container
JLeaves == {JNull, JNum(Unsafe), JStr(BadString)} \cup {JStr(BigIntToString(n)) : n \in IntValues}

\* the cells the service can send for a column of the type
Cells(type) ==
  {Null, BadString} \cup
  IF type \notin ContainerTypes THEN {BigIntToString(n) : n \in IntValues}
  ELSE IF type = StructOf("big", Leaf("BIGINT"))
  THEN {JsonString(JObj([big |-> j])) : j \in JLeaves}
         \cup {BigIntToString(Unsafe), JsonString(JObj(<<>>)), JsonString(JArr(<<>>)),
               Obj([big |-> BigIntToString(Unsafe)])}
  ELSE IF type = ArrayOf(Leaf("LONG"))
  THEN {JsonString(JArr(<<j>>)) : j \in JLeaves}
         \cup {JsonString(JArr(<<JStr(BigIntToString(-3)), j>>)) : j \in JLeaves}
         \cup {JsonString(JObj(<<>>))}
  ELSE IF type = MapOf(Leaf("STRING"), Leaf("BIGINT"))
  THEN {JsonString(JObj([k1 |-> j])) : j \in JLeaves} \cup {JsonString(JArr(<<>>))}
  ELSE {JsonString(JObj([s |-> JObj([big |-> j])])) : j \in JLeaves}
         \cup {JsonString(JObj([s |-> JStr(BadString)])),
               JsonString(JObj([s |-> JStr(JsonString(JObj([big |->
                                         JStr(BigIntToString(Unsafe))])))]))}

\* the mapper createRowMapper returns, applied to a row: the row itself unless the
\* format is JSON_OBJECT, else an object with one property for each column
mapRow(converters, row) ==
  IF mapFormat # "JSON_OBJECT" THEN Arr(row)
  ELSE LET names == {converters[i].name : i \in DOMAIN converters}
           indexOf(x) == CHOOSE i \in DOMAIN converters : converters[i].name = x
           mapped == [x \in names |->
                        convertValue(converters[indexOf(x)].type, row[indexOf(x)],
                                     encodeBigInt)]
       IN  IF Threw({mapped[x] : x \in names}) THEN InvalidJson ELSE Obj(mapped)

\* createRowMapper(manifest, format, options)
CreateRowMapper ==
  /\ op = "map" /\ dpc = "idle"
  /\ dpc' = "ready"
  /\ columnConverters' =
       IF mapFormat # "JSON_OBJECT" THEN <<>>
       ELSE <<[name |-> "id", type |-> Leaf("STRING")], [name |-> "value", type |-> columnType]>>
  /\ UNCHANGED <<mapFormat, encodeBigInt, columnType, inRows, decodes>>
  /\ UNCHANGED <<op, opts, aborted, abortAt, outcome, thrown, execVars, resultVars,
                 streamVars, rowVars, mergeVars, httpVars, calls, raised>>

\* what a call of the mapper leaves behind for its caller
MapperReturns(r, result) ==
  /\ decodes' = Append(decodes, [row |-> r, result |-> result])
  /\ IF result.t = "throw"
     THEN /\ outcome' = "DatabricksSqlError"
          /\ thrown' = [code |-> "INVALID_JSON", message |-> "Failed to parse JSON value",
                        statementId |-> FALSE]
     ELSE outcome' = "Mapped" /\ thrown' = NoError

MapRowInPlace ==
  /\ op = "map" /\ dpc = "ready"
  /\ Len(decodes) < MaxDecodes
  /\ \E r \in DOMAIN inRows :
       LET result == mapRow(columnConverters, inRows[r])
       IN  /\ MapperReturns(r, result)
           /\ inRows' = IF result.t = "obj"
                        THEN [inRows EXCEPT ![r] = <<result.f["id"], result.f["value"]>>]
                        ELSE inRows
  /\ UNCHANGED <<dpc, mapFormat, encodeBigInt, columnType, columnConverters>>
  /\ UNCHANGED <<op, opts, aborted, abortAt, execVars, resultVars, streamVars, rowVars,
                 mergeVars, httpVars, calls, raised>>

\* one call of the mapper, on any of the rows
MapRow ==
  /\ op = "map" /\ dpc = "ready"
  /\ Len(decodes) < MaxDecodes
  /\ \E r \in DOMAIN inRows :
       /\ MapperReturns(r, mapRow(columnConverters, inRows[r]))
       /\ UNCHANGED inRows
  /\ UNCHANGED <<dpc, mapFormat, encodeBigInt, columnType, columnConverters>>
  /\ UNCHANGED <<op, opts, aborted, abortAt, execVars, resultVars, streamVars, rowVars,
                 mergeVars, httpVars, calls, raised>>

MapperNext == CreateRowMapper \/ MapRow

\* a schema of two columns, the first a STRING; two rows of it
MapperInit ==
  /\ dpc = "idle" /\ columnConverters = <<>> /\ decodes = <<>>
  /\ mapFormat \in {"JSON_ARRAY", "JSON_OBJECT"}
  /\ encodeBigInt \in BOOLEAN
  /\ columnType \in ColumnTypes
  /\ IF op = "map"
     THEN /\ mapFormat # "JSON_OBJECT" => ~encodeBigInt
          /\ \E a, b \in Cells(columnType) :
               inRows = <<<<BigIntToString(1), a>>, <<BigIntToString(2), b>>>>
     ELSE /\ mapFormat = "JSON_ARRAY" /\ ~encodeBigInt /\ columnType = Leaf("STRING")
          /\ inRows = <<>>

\* ============================================================== httpRequest
MAX_RETRIES == 3
INITIAL_RETRY_DELAY_MS == 1000

\* the Retry-After header of a 429 response: absent, text that is no number (an
\* HTTP date), or the text of an integer
RetryAfterHeaders ==
  {[h |-> "absent"], [h |-> "text"]} \cup {[h |-> "int", n |-> n] : n \in {-1, 0, 2}}

\* what one call of fetch settles with: a response that is ok (with a body that is
\* JSON or not), a response of some other status, the TypeError 'fetch failed' of a
\* network failure, or another rejection
Responses ==
  {[k |-> "ok"], [k |-> "okBadJson"], [k |-> "network"], [k |-> "rejects"]}
    \cup {[k |-> "status", status |-> s] : s \in {401, 404, 500}}
    \cup {[k |-> "status", status |-> 429, retryAfter |-> h] : h \in RetryAfterHeaders}

\* retryAfterHeader ? parseInt(retryAfterHeader, 10) : undefined, and undefined for
\* NaN: <<n>> or <<>>
parseRetryAfter(h) == IF h.h = "int" THEN <<h.n>> ELSE <<>>

\* error.retryAfter as a condition: neither undefined nor 0
Truthy(retryAfter) == retryAfter # <<>> /\ retryAfter[1] # 0

\* httpRequest settles with o
HttpSettles(o) ==
  /\ hpc' = "done"
  /\ outcome' = o
  /\ thrown' = ErrorFields(o, "absent")
  /\ UNCHANGED <<attempt, fetches, retryDelay, delayMs>>

\* one turn of the loop: the test of the loop, the test of the signal, fetch
HttpAttempt(a, nextDelay) ==
  IF a > MAX_RETRIES
    THEN HttpSettles(IF lastResponse.k = "network" THEN "TypeError" ELSE "HttpError")
  ELSE IF aborted
    THEN HttpSettles("AbortError")
    ELSE /\ hpc' = "fetch"
         /\ attempt' = a
         /\ fetches' = fetches + 1
         /\ retryDelay' = nextDelay
         /\ UNCHANGED <<outcome, thrown, delayMs>>

\* await delay(ms, signal): rejects at once when the signal is aborted, and the
\* catch block rethrows the AbortError
HttpDelay(ms) ==
  IF aborted
    THEN HttpSettles("AbortError")
    ELSE /\ hpc' = "delay"
         /\ delayMs' = ms
         /\ UNCHANGED <<outcome, thrown, attempt, fetches, retryDelay>>

\* a call of httpRequest
HttpCall ==
  /\ op = "http" /\ hpc = "idle"
  /\ HttpAttempt(0, INITIAL_RETRY_DELAY_MS)
  /\ UNCHANGED lastResponse
  /\ UNCHANGED <<op, opts, aborted, abortAt, execVars, resultVars, streamVars, rowVars,
                 mergeVars, mapperVars, raised, calls>>

\* fetch settles with r: the body of the try block and the catch block
FetchSettles ==
  /\ op = "http" /\ hpc = "fetch"
  /\ \E r \in Responses :
       /\ lastResponse' = r
       /\ IF r.k = "ok" THEN HttpSettles("Response")
          ELSE IF r.k = "okBadJson" THEN HttpSettles("SyntaxError")
          ELSE IF r.k = "rejects"
            THEN \E e \in (IF aborted THEN {"DOMAbortError", "Error"} ELSE {"Error"}) :
                   HttpSettles(e)
          ELSE IF r.k = "network"
            THEN IF attempt < MAX_RETRIES THEN HttpDelay(retryDelay)
                                          ELSE HttpSettles("TypeError")
          ELSE IF r.status = 401 THEN HttpSettles("AuthenticationError")
          ELSE IF r.status = 429
            THEN LET retryAfter == parseRetryAfter(r.retryAfter) IN
                 IF Truthy(retryAfter) /\ attempt < MAX_RETRIES
                   THEN HttpDelay(retryAfter[1] * 1000)
                   ELSE HttpSettles("RateLimitError")
          ELSE IF r.status >= 500 /\ attempt < MAX_RETRIES
            THEN HttpDelay(retryDelay)
            ELSE HttpSettles("HttpError")
  /\ UNCHANGED <<op, opts, aborted, abortAt, execVars, resultVars, streamVars, rowVars,
                 mergeVars, mapperVars, raised, calls>>

\* the timer of delay fires: retryDelay is doubled after a backoff, and the loop
\* goes to its next attempt
HttpDelayElapsed ==
  /\ op = "http" /\ hpc = "delay" /\ ~aborted
  /\ HttpAttempt(attempt + 1,
                 IF lastResponse.k = "status" /\ lastResponse.status = 429
                   THEN retryDelay ELSE retryDelay * 2)
  /\ UNCHANGED lastResponse
  /\ UNCHANGED <<op, opts, aborted, abortAt, execVars, resultVars, streamVars, rowVars,
                 mergeVars, mapperVars, raised, calls>>

\* the signal has fired during the delay: delay rejects and the catch block
\* rethrows the AbortError
HttpDelayAborted ==
  /\ op = "http" /\ hpc = "delay" /\ aborted
  /\ HttpSettles("AbortError")
  /\ UNCHANGED lastResponse
  /\ UNCHANGED <<op, opts, aborted, abortAt, execVars, resultVars, streamVars, rowVars,
                 mergeVars, mapperVars, raised, calls>>

HttpNext == HttpCall \/ FetchSettles \/ HttpDelayElapsed \/ HttpDelayAborted

HttpInit ==
  /\ hpc = "idle" /\ attempt = 0 /\ fetches = 0 /\ retryDelay = 0 /\ delayMs = 0
  /\ lastResponse = [k |-> "none"]

\* ====================================================== concurrent calls
\* Two calls made by one program run interleaved: each await of one call lets the
\* other run.  What a call keeps between its steps lives in the variables of its own
\* invocation: rows and the onEachRow closure of fetchAll, mapRow of fetchRow,
\* chunkUrls of collectExternalUrls, cancelIssued of executeStatement.  calls[c]
\* holds them for call c, next to what call c was given (its result, its signal)
\* and what it has sent and returned.
Calls == {1, 2}

\* the links of a result of t chunks
PairLink(t) == [chunk_index : 0..(t - 1), empty : BOOLEAN]

\* the calls that can be made: fetchAll on an inline result of n rows, fetchStream on
\* a result of total chunks whose payload lists at most one link and whose chunk
\* lookups report at most one (later), executeStatement with or without a signal
CallsMade ==
  {[fn |-> "fetchAll", pc |-> "idle", signal |-> FALSE, aborted |-> FALSE, n |-> n,
    format |-> f, total |-> 1, payload |-> <<>>, later |-> <<>>,
    rows |-> <<>>, ri |-> 0, mapRow |-> <<>>, chunkUrls |-> <<>>, cancelIssued |-> FALSE,
    reqs |-> <<>>, result |-> <<>>] : n \in 1..MaxRows, f \in {"JSON_ARRAY", "JSON_OBJECT"}}
  \cup
  {[fn |-> "fetchStream", pc |-> "idle", signal |-> FALSE, aborted |-> FALSE, n |-> 0,
    format |-> "JSON_ARRAY", total |-> t, payload |-> p, later |-> l,
    rows |-> <<>>, ri |-> 0, mapRow |-> <<>>, chunkUrls |-> <<>>, cancelIssued |-> FALSE,
    reqs |-> <<>>, result |-> <<>>] :
      t \in {2}, p \in {<<>>} \cup {<<x>> : x \in PairLink(2)},
      l \in {<<>>} \cup {<<x>> : x \in PairLink(2)}}
  \cup
  {[fn |-> "executeStatement", pc |-> "idle", signal |-> s, aborted |-> FALSE, n |-> 0,
    format |-> "JSON_ARRAY", total |-> 0, payload |-> <<>>, later |-> <<>>,
    rows |-> <<>>, ri |-> 0, mapRow |-> <<>>, chunkUrls |-> <<>>, cancelIssued |-> FALSE,
    reqs |-> <<>>, result |-> <<>>] : s \in BOOLEAN}

\* the identities of the URLs of call c's result start after UrlBase(c)
UrlBase(c) == 10 * c

\* the row mapper of a call decodes row k of the call's result under its format
Decoded(conv, c, k) == <<conv[1], c, k>>

\* a rows array hoisted out of fetchAll: every call pushes into the one array
PushRowShared(c, row) == [d \in Calls |-> [calls[d] EXCEPT !.rows = Append(@, row)]]

\* rows.push(row) in the onEachRow of call c
PushRow(c, row) == [calls EXCEPT ![c].rows = Append(@, row)]

\* cancelStatementSafely of a call: its flag, its request
PairCancel(call) ==
  IF call.cancelIssued THEN call
  ELSE [call EXCEPT !.cancelIssued = TRUE,
                    !.reqs = Append(@, [kind |-> "cancel", index |-> 0])]

\* the loop of collectExternalUrls of a call from index i on: the next chunk it does
\* not know is requested, or the flattened list is the result
PairCollectFrom(call, i) ==
  LET j == NextMissing(call.chunkUrls, i, call.total) IN
  IF j < call.total
    THEN [call EXCEPT !.pc = "getChunk",
                      !.reqs = Append(@, [kind |-> "getChunk", index |-> j])]
    ELSE [call EXCEPT !.pc = "done", !.result = <<flattenChunkUrls(call.chunkUrls)>>]

\* call c is made and runs to its first suspension
PairCall(c) ==
  /\ calls[c].pc = "idle"
  /\ LET call == calls[c] IN
     calls' = [calls EXCEPT ![c] =
       IF call.fn = "fetchAll"
         THEN [call EXCEPT !.pc = "rows", !.rows = <<>>, !.mapRow = <<call.format>>]
       ELSE IF call.fn = "fetchStream"
         THEN PairCollectFrom(
                [call EXCEPT !.chunkUrls = addChunkLinks(<<>>, call.payload, UrlBase(c))],
                0)
       ELSE [call EXCEPT !.pc = "polling", !.cancelIssued = FALSE]]

\* fetchAll of call c: fetchRow passes the next row of the call's result, decoded by
\* the call's mapper, to the call's onEachRow
PairRow(c) ==
  /\ calls[c].pc = "rows" /\ calls[c].ri < calls[c].n
  /\ calls' = [PushRow(c, Decoded(calls[c].mapRow, c, calls[c].ri + 1))
                 EXCEPT ![c].ri = @ + 1]

\* fetchRow of call c has resolved: fetchAll returns its rows
PairReturn(c) ==
  /\ calls[c].pc = "rows" /\ calls[c].ri = calls[c].n
  /\ calls' = [calls EXCEPT ![c].pc = "done", ![c].result = <<calls[c].rows>>]

\* the chunk call c asked for arrives: its links go into the call's chunkUrls and
\* the loop goes on behind the index that was requested
PairChunkResponds(c) ==
  /\ calls[c].pc = "getChunk"
  /\ LET call == calls[c]
         asked == call.reqs[Len(call.reqs)].index
         map == addChunkLinks(call.chunkUrls, call.later, UrlBase(c) + 4 + Len(call.reqs))
     IN  calls' = [calls EXCEPT ![c] =
                     PairCollectFrom([call EXCEPT !.chunkUrls = map], asked + 1)]

\* the signal of call c fires: onAbort of that call, when it is polling
PairAbort(c) ==
  /\ calls[c].fn = "executeStatement" /\ calls[c].signal /\ ~calls[c].aborted
  /\ calls[c].pc \in {"polling", "done"}
  /\ LET call == [calls[c] EXCEPT !.aborted = TRUE] IN
     calls' = [calls EXCEPT ![c] = IF call.pc = "polling" THEN PairCancel(call) ELSE call]

\* the polling of call c ends: with a terminal state, or, when its signal has fired,
\* in the catch block (a getStatement in flight when the signal fires may still
\* answer with a terminal state)
PairPollEnds(c) ==
  /\ calls[c].pc = "polling"
  /\ LET call == calls[c] IN
     \/ calls' = [calls EXCEPT ![c] = [call EXCEPT !.pc = "done", !.result = <<"Returned">>]]
     \/ /\ call.aborted
        /\ calls' = [calls EXCEPT ![c] =
                       [PairCancel(call) EXCEPT !.pc = "done", !.result = <<"AbortError">>]]

PairNext ==
  /\ op = "pair"
  /\ \E c \in Calls :
       \/ PairCall(c) \/ PairRow(c) \/ PairReturn(c) \/ PairChunkResponds(c)
       \/ PairAbort(c) \/ PairPollEnds(c)
  /\ UNCHANGED <<op, opts, aborted, abortAt, raised, outcome, thrown, execVars, resultVars,
                 streamVars, rowVars, mergeVars, mapperVars, httpVars>>

PairInit ==
  IF op = "pair"
    THEN calls \in [Calls -> CallsMade]
    ELSE calls = [c \in Calls |-> CHOOSE x \in CallsMade :
                                    x.fn = "executeStatement" /\ ~x.signal]

\* ================================================================= signal
\* where the call stands
Position ==
  IF op = "exec" THEN epc
  ELSE IF op = "http" THEN hpc
  ELSE IF op = "row" THEN rpc
  ELSE IF out \in {"closed", "errored"} THEN "done" ELSE spc

\* an abort that finds no onAbort of executeStatement attached
AbortUnheard ==
  /\ opts.signal /\ ~aborted
  /\ Position \notin {"init", "idle"}
  /\ (op = "row" /\ rpc = "rows") => ri > 0
  /\ aborted' = TRUE
  /\ abortAt' = Position
  /\ DestroyOut(out, "AbortError")
  /\ UNCHANGED <<op, opts, outcome, thrown, epc, state, listener, submits, refetches,
                 metricsReqs, observed, progress, lateTerminal, metricsFailed,
                 statusError>>
  /\ UNCHANGED <<cancelIssued, cancelReq, cancelCount>>
  /\ UNCHANGED <<resultVars, mergeVars, mapperVars, httpVars, calls, raised, rowVars>>
  /\ UNCHANGED <<spc, disc, chunkUrls, ci, chunkReqs, urls, path, handed, mergeFormat, wi,
                 written, failure>>

\* controller.abort() after the call was made (a signal aborted before the call is an
\* initial state): the flag is set and the attached listeners run, synchronously:
\* onAbort of executeStatement, onAbort of fetchStream.  The row loops of fetchRow
\* run without suspension: there it is an onEachRow callback that fires the signal.
Abort ==
  /\ opts.signal /\ ~aborted
  /\ Position \notin {"init", "idle"}
  /\ (op = "row" /\ rpc = "rows") => ri > 0
  /\ aborted' = TRUE
  /\ abortAt' = Position
  /\ IF listener THEN cancelStatementSafely
                 ELSE UNCHANGED <<cancelIssued, cancelReq, cancelCount>>
  /\ DestroyOut(out, "AbortError")
  /\ UNCHANGED <<op, opts, outcome, thrown, epc, state, listener, submits, refetches,
                 metricsReqs, observed, progress, lateTerminal, metricsFailed,
                 statusError>>
  /\ UNCHANGED <<resultVars, mergeVars, mapperVars, httpVars, calls, raised, rowVars>>
  /\ UNCHANGED <<spc, disc, chunkUrls, ci, chunkReqs, urls, path, handed, mergeFormat, wi,
                 written, failure>>


ExecNext ==
  \/ ExecStart \/ SubmitResponds \/ SubmitFails \/ MetricsSettles \/ CallbackReturns
  \/ DelayElapsed \/ DelayAborted \/ RefetchResponds \/ RefetchFails
  \/ CancelSettles

ExecInit ==
  /\ epc = "init" /\ state = "none"
  /\ cancelIssued = FALSE /\ cancelReq = "none" /\ cancelCount = 0
  /\ listener = FALSE
  /\ submits = 0 /\ refetches = 0 /\ metricsReqs = 0
  /\ observed = <<>> /\ progress = <<>>
  /\ lateTerminal = FALSE
  /\ statusError = "absent" /\ metricsFailed = FALSE

\* manifest.format
Formats == {"JSON_ARRAY", "CSV", "ARROW_STREAM"}

Options == [signal : BOOLEAN, onProgress : BOOLEAN, enableMetrics : BOOLEAN,
            forceMerge : BOOLEAN]

\* the statement results the calls are given.  A result that is not SUCCEEDED carries
\* no links, and format and total_chunk_count of a missing manifest are fixed: the
\* validation throws before anything of them is read.  Inline results are JSON_ARRAY.
\* fetchStream passes the format on without reading it: two formats are enumerated
\* for it; fetchRow, which tests the format, gets all three.  total_row_count is
\* read by mergeExternalLinks only: the other calls get one value of it, and
\* mergeExternalLinks gets a manifest without it on results of at most one chunk.
\* (Init keeps results of more than MaxLinkedChunks chunks without inline data for
\* fetchStream called on JSON_ARRAY without a signal.)
ResultInit ==
  /\ kind \in {"external", "inline", "none"}
  /\ rstate \in StatementState
  /\ manifest \in BOOLEAN
  /\ total \in (IF manifest THEN 0..MaxChunks ELSE {0})
  /\ payload \in (IF kind = "external" /\ rstate = "SUCCEEDED"
                    THEN LinkLists(MaxLinks) ELSE {<<>>})
  /\ inlineRows \in (IF kind = "inline" THEN 0..MaxRows ELSE {0})
  /\ format \in (IF rstate = "SUCCEEDED" /\ manifest /\ kind # "inline"
                   THEN Formats ELSE {"JSON_ARRAY"})
  /\ totalRowCount \in (IF manifest THEN {<<>>, <<5>>} ELSE {<<>>})

Init ==
  /\ op \in {"exec", "stream", "row", "merge", "map", "http", "pair"}
  /\ opts \in Options
  /\ op \in {"map", "pair"} => opts = [signal |-> FALSE, onProgress |-> FALSE, enableMetrics |-> FALSE,
                           forceMerge |-> FALSE]
  /\ opts.enableMetrics => opts.onProgress
  /\ op # "exec" => ~opts.onProgress
  /\ op \notin {"stream", "merge"} => ~opts.forceMerge
  /\ aborted \in BOOLEAN
  /\ aborted => opts.signal
  /\ abortAt = (IF aborted THEN "before" ELSE "never")
  /\ outcome = "none" /\ thrown = NoError /\ raised = "none"
  /\ ResultInit
  /\ (kind # "inline" /\ total > MaxLinkedChunks) =>
       (op = "stream" /\ ~opts.signal /\ format = "JSON_ARRAY")
  /\ op \in {"exec", "map", "http", "pair"} => (kind = "none" /\ total = 0 /\ rstate = "SUCCEEDED" /\ manifest
                       /\ format = "JSON_ARRAY")
  /\ (op = "row" /\ kind # "external") => format = "JSON_ARRAY"
  /\ op = "stream" => format \in {"JSON_ARRAY", "CSV"}
  /\ op = "merge" => format = "JSON_ARRAY"
  /\ (manifest /\ (op # "merge" \/ total > 1)) => totalRowCount = <<5>>
  /\ ExecInit /\ StreamInit /\ RowInit /\ MergeInit /\ MapperInit /\ HttpInit /\ PairInit

Next ==
  \/ ExecNext \/ StreamNext \/ RowNext \/ MergeNext \/ MapperNext \/ HttpNext \/ PairNext
  \/ Abort

Spec == Init /\ [][Next]_vars

\* ================================================================= claims
Range(f) == {f[x] : x \in DOMAIN f}

\* chunk index the link behind URL u was reported with
UrlChunk(u) == disc[u].chunk_index

\* the URLs reported so far (links with a non-empty external_link)
NonEmptyUrls == {u \in 1..Len(disc) : ~disc[u].empty}

\* ascending chunk index, discovery order within a chunk
OrderedUrls(list) ==
  \A a, b \in 1..Len(list) :
    a < b => \/ UrlChunk(list[a]) < UrlChunk(list[b])
             \/ UrlChunk(list[a]) = UrlChunk(list[b]) /\ list[a] < list[b]

\* the chunk locator is at work: fetchStream, or fetchRow on external links
Locating == op = "stream" \/ (op = "row" /\ kind = "external")

\* C1: the URL list fetchStream resolves, and hands to the direct pipe or to the merge
\* engine, holds every reported URL once, by ascending chunk_index and, within a chunk,
\* in discovery order (payload first, then the chunk responses in fetch order), whatever
\* order the payload or a response lists its links in.
C1_UrlOrder ==
  (Locating /\ (spc \in {"resolved", "pipeFetch", "writing"} \/ path # "none")) =>
    /\ OrderedUrls(urls)
    /\ Range(urls) = NonEmptyUrls
    /\ path \in {"pipe", "merge"} => handed = urls

\* C1 witness: a payload listing chunk 1 only, the response for chunk 0 bringing a URL
\* of chunk 0 and a second URL of chunk 1, all three handed to the merge engine: the
\* URL of chunk 0, found later, comes first
C1_Witness ==
  /\ op = "stream" /\ path = "merge" /\ Len(handed) = 3
  /\ Len(payload) = 1 /\ payload[1].chunk_index = 1
  /\ chunkReqs = <<0>>
  /\ handed[1] > handed[2] /\ UrlChunk(handed[1]) = 0
  /\ UrlChunk(handed[2]) = 1 /\ UrlChunk(handed[3]) = 1

\* chunk indices the payload supplies a URL for
PayloadKnown == {payload[j].chunk_index : j \in {x \in 1..Len(payload) : ~payload[x].empty}}

Ascending(seq) == \A a, b \in 1..Len(seq) : a < b => seq[a] < seq[b]

\* C2 as stated: once resolution has run to its end, the chunk-metadata requests are the
\* indices of [0, total_chunk_count) missing from the payload, ascending, each once.
C2_ExactlyPayloadMissing ==
  (Locating /\ spc = "resolved" /\ PayloadKnown # {} /\ PayloadKnown \subseteq 0..(total - 1)) =>
    /\ Ascending(chunkReqs)
    /\ Range(chunkReqs) = (0..(total - 1)) \ PayloadKnown

\* C2 amended: every chunk-metadata request is for an index of [0, total_chunk_count)
\* that no link reported so far (by the payload or by an earlier response) covers, the
\* requests ascend, and each index below the requested one is covered or was requested;
\* when resolution ends every index is covered or was requested.
C2_RequestsUnknownAscending ==
  /\ [][(Locating /\ chunkReqs' # chunkReqs) =>
          \E j \in 0..(total - 1) :
            /\ chunkReqs' = Append(chunkReqs, j)
            /\ ~Has(chunkUrls', j)
            /\ \A r \in 1..Len(chunkReqs) : chunkReqs[r] < j
            /\ \A i \in 0..(j - 1) : Has(chunkUrls', i) \/ i \in Range(chunkReqs)]_vars
  /\ []((Locating /\ spc = "resolved") =>
          \A i \in 0..(total - 1) : Has(chunkUrls, i) \/ i \in Range(chunkReqs))

\* C2 witness: the payload names chunk 0 of three; chunks 1 and 2 were requested
C2_Witness ==
  /\ Locating /\ spc = "resolved" /\ total = 3
  /\ PayloadKnown = {0}
  /\ chunkReqs = <<1, 2>>

\* rows compare by chunk, then URL, then position behind the URL
RowLess(x, y) ==
  \/ x[1] < y[1]
  \/ x[1] = y[1] /\ x[2] < y[2]
  \/ x[1] = y[1] /\ x[2] = y[2] /\ x[3] < y[3]

RowsAscend(seq) == \A a, b \in 1..Len(seq) : a < b => RowLess(seq[a], seq[b])

\* every row of the result: the rows behind every reported URL
AllRows == {<<UrlChunk(u), u, r>> : u \in NonEmptyUrls, r \in 1..RowsPerUrl}

\* C3: on an external-link result fetchRow (and fetchAll, whose list is what the row
\* callback received) delivers the rows of chunk k before those of chunk k+1, each
\* chunk's rows in their order, and on success every row: the original row order.
C3_RowOrder ==
  (op = "row" /\ kind = "external") =>
    /\ RowsAscend(delivered)
    /\ outcome = "Resolved" => Range(delivered) = AllRows

\* C3 witness: the payload names only chunk 1 of two; the response for chunk 0 brought
\* two URLs; all rows behind the three URLs were delivered, those of chunk 0 first
C3_Witness ==
  /\ op = "row" /\ kind = "external" /\ outcome = "Resolved"
  /\ Len(payload) = 1 /\ PayloadKnown = {1} /\ chunkReqs = <<0>>
  /\ Len(delivered) = 3 * RowsPerUrl
  /\ delivered[1][1] = 0
  /\ {delivered[x][1] : x \in 1..Len(delivered)} = {0, 1}

\* fetchRow on a result without external links
InlinePath == op = "row" /\ kind # "external"

\* rows of chunk c delivered so far
DeliveredOf(c) == {x \in 1..Len(delivered) : delivered[x][1] = c}

\* C4: on an inline result fetchRow delivers the inline rows first, then requests
\* chunks 1..n-1 once each in ascending order, and delivers every row of a chunk, in
\* order, before it requests the next chunk.
C4_InlineChunkOrder ==
  /\ [](InlinePath =>
          /\ RowsAscend(delivered)
          /\ chunkReqs = [k \in 1..Len(chunkReqs) |-> k]
          /\ \A k \in 1..Len(chunkReqs) : chunkReqs[k] < total
          /\ rpc = "getChunk" => \A x \in 1..Len(delivered) : delivered[x][1] < ci
          /\ rpc = "rows" => Cardinality(DeliveredOf(ci)) = ri
          /\ Len(chunkReqs) >= 1 =>
               /\ Len(delivered) >= inlineRows
               /\ \A k \in 1..inlineRows : delivered[k] = <<0, 0, k>>
          /\ outcome = "Resolved" =>
               Len(chunkReqs) = (IF total > 1 THEN total - 1 ELSE 0))
  /\ [][(InlinePath /\ chunkReqs' # chunkReqs) =>
          /\ ri = curRows
          /\ Cardinality(DeliveredOf(ci)) = curRows]_vars

\* C4 witness: three chunks, two inline rows, rows of all three chunks delivered
C4_Witness ==
  /\ InlinePath /\ outcome = "Resolved" /\ total = 3 /\ inlineRows = 2
  /\ chunkReqs = <<1, 2>>
  /\ {delivered[x][1] : x \in 1..Len(delivered)} = {0, 1, 2}


NonTerminalCount(seq) == Cardinality({x \in 1..Len(seq) : seq[x] \notin TERMINAL_STATES})

\* outcomes of the terminal classification
Classified == {"Returned", "StatementCancelledError", "DatabricksSqlError"}

\* C5: executeStatement submits once and re-fetches the status once per non-terminal
\* state it observes: after k non-terminal states and a terminal one it has made 1
\* submit and k re-fetches (1 + k requests in all without metrics and abort), and it
\* sends nothing more once it has settled.
C5_OneRefetchPerNonTerminal ==
  /\ [](op = "exec" =>
          /\ submits <= 1
          /\ refetches <= NonTerminalCount(observed)
          /\ (epc = "done" /\ outcome \in Classified) =>
               /\ submits = 1
               /\ refetches = NonTerminalCount(observed)
               /\ Len(observed) = refetches + 1
               /\ observed[Len(observed)] \in TERMINAL_STATES
               /\ (~opts.enableMetrics /\ ~aborted) =>
                    submits + refetches + metricsReqs + cancelCount = Len(observed))
  /\ [][(op = "exec" /\ epc = "done") =>
          (submits' = submits /\ refetches' = refetches /\ metricsReqs' = metricsReqs)]_vars

\* C5 witness: PENDING, RUNNING, SUCCEEDED: three requests
C5_Witness ==
  /\ op = "exec" /\ epc = "done" /\ outcome = "Returned"
  /\ ~opts.enableMetrics /\ ~aborted
  /\ observed = <<"PENDING", "RUNNING", "SUCCEEDED">>
  /\ submits = 1 /\ refetches = 2 /\ metricsReqs = 0 /\ cancelCount = 0

\* the states handed to onProgress
ProgressStates == [k \in 1..Len(progress) |-> progress[k].state]

\* C6: with onProgress, every state observed is reported once, in order, before the
\* next one is fetched, and the terminal state (whichever it is) is reported once
\* before the call returns or throws.
C6_ProgressOncePerState ==
  (op = "exec" /\ opts.onProgress) =>
    /\ Len(progress) <= Len(observed)
    /\ \A k \in 1..Len(progress) : ProgressStates[k] = observed[k]
    /\ Len(progress) >= Len(observed) - 1
    /\ (epc = "done" /\ outcome \in Classified) => ProgressStates = observed

\* C6 witness: PENDING then FAILED, both reported, the service error thrown
C6_Witness ==
  /\ op = "exec" /\ opts.onProgress /\ ~aborted
  /\ epc = "done" /\ outcome = "DatabricksSqlError"
  /\ observed = <<"PENDING", "FAILED">>
  /\ ProgressStates = observed

\* C7: one call sends at most one cancel request, in every interleaving.
C7_AtMostOneCancel == op = "exec" => cancelCount <= 1

\* C7 witness: aborted during the delay: the listener and the catch block both ran
\* cancelStatementSafely, one request was sent
C7_Witness ==
  /\ op = "exec" /\ epc = "done" /\ abortAt = "delay"
  /\ outcome = "AbortError" /\ cancelCount = 1

\* suspension points of the polling loop
LoopPoints == {"loopMetrics", "loopCallback", "delay", "refetch"}

AbortClass == {"AbortError", "DOMAbortError"}

RowPending ==
  \/ rpc = "rows" /\ (ri < curRows \/ (total > 1 /\ NextChunkIndex(ci) < total))
  \/ rpc = "consume" /\ Len(delivered) < Len(written)

C12_TerminalClassification ==
  (op = "exec" /\ epc = "done" /\ outcome \in Classified) =>
    /\ state = observed[Len(observed)]
    /\ \/ /\ state = "SUCCEEDED" /\ outcome = "Returned" /\ thrown = NoError
       \/ /\ state = "CANCELED" /\ outcome = "StatementCancelledError"
          /\ thrown.code = "CANCELLED" /\ thrown.statementId
       \/ /\ state \in {"FAILED", "CLOSED"} /\ outcome = "DatabricksSqlError"
          /\ thrown.statementId
          /\ statusError = "present" =>
                (thrown.code = "error.error_code" /\ thrown.message = "error.message")
          /\ statusError = "absent" =>
                (thrown.code = "UNKNOWN_ERROR"
                 /\ thrown.message = "Statement execution failed")

\* C12 witness: CLOSED without error details: the service error with the generic message
C12_Witness ==
  /\ op = "exec" /\ epc = "done" /\ state = "CLOSED" /\ statusError = "absent"
  /\ outcome = "DatabricksSqlError" /\ thrown.message = "Statement execution failed"

\* C13: a metrics request that fails never fails executeStatement and never stops the
\* polling: the step that settles the metrics request always hands the current state
\* to onProgress (without metrics when the request failed) and leaves the call pending,
\* and a call that saw a metrics failure and reached the classification has polled,
\* reported and classified exactly as a call without metrics does.
C13_MetricsFailureAbsorbed ==
  /\ [][(op = "exec" /\ epc \in {"loopMetrics", "finalMetrics"} /\ epc' # epc) =>
          /\ epc' = (IF epc = "loopMetrics" THEN "loopCallback" ELSE "finalCallback")
          /\ outcome' = "none"
          /\ Len(progress') = Len(progress) + 1
          /\ progress'[Len(progress')].state = state
          /\ (metricsFailed' /\ ~metricsFailed) => progress'[Len(progress')].metrics = "none"
       ]_vars
  /\ []((op = "exec" /\ metricsFailed /\ epc = "done" /\ outcome \in Classified) =>
          /\ outcome = ClassOf(state)
          /\ ProgressStates = observed
          /\ refetches = Len(observed) - 1)

\* C13 witness: the metrics request failed while RUNNING was being reported; the call
\* went on to SUCCEEDED and returned
C13_Witness ==
  /\ op = "exec" /\ epc = "done" /\ metricsFailed /\ ~aborted
  /\ observed = <<"RUNNING", "SUCCEEDED">>
  /\ progress[1] = [state |-> "RUNNING", metrics |-> "none"]
  /\ outcome = "Returned"

\* fetchStream or fetchRow has been called
Called == IF op = "stream" THEN spc # "idle" ELSE rpc # "idle"

\* the result is one that fetchStream / fetchRow must reject at call time
Rejected == rstate # "SUCCEEDED" \/ ~manifest \/ (op = "stream" /\ kind = "inline")

\* C14: fetchStream and fetchRow reject a result that is not SUCCEEDED (INVALID_STATE),
\* else one without manifest (MISSING_MANIFEST), else, for fetchStream, one with inline
\* data (UNSUPPORTED_FORMAT): the call itself raises the error, and no chunk request is
\* ever sent, no stream is ever created, no delivery path is taken and no row reaches
\* the callback.
C14_PreconditionsAtCall ==
  (op \in {"stream", "row"} /\ Rejected) =>
    /\ chunkReqs = <<>> /\ path = "none" /\ written = <<>> /\ delivered = <<>>
    /\ out = "none" /\ outErr = "none"
    /\ Called =>
         /\ outcome = "DatabricksSqlError"
         /\ thrown.code = (IF rstate # "SUCCEEDED" THEN "INVALID_STATE"
                            ELSE IF ~manifest THEN "MISSING_MANIFEST"
                            ELSE "UNSUPPORTED_FORMAT")
         /\ (IF op = "stream" THEN spc = "closed" ELSE rpc = "done")

\* C14 witness: fetchStream given a FAILED result without manifest has thrown
\* INVALID_STATE
C14_Witness ==
  /\ op = "stream" /\ rstate = "FAILED" /\ ~manifest /\ spc = "closed"
  /\ outcome = "DatabricksSqlError" /\ thrown.code = "INVALID_STATE" /\ out = "none"

\* C15: once the URLs are resolved fetchStream takes one delivery path and never a
\* second one: a single URL without forceMerge is piped to the output and the merge
\* engine is not invoked; two or more URLs, or a single URL with forceMerge, go to the
\* merge engine, invoked once with the whole URL list in its order and with the
\* manifest's format.  (round changes when mergeExternalLinks is called again, which
\* starts another fetchStream.)
C15_OneDeliveryPath ==
  /\ [](Locating =>
          /\ path = "pipe" =>
               (Len(urls) = 1 /\ ~opts.forceMerge /\ handed = urls /\ mergeFormat = "none")
          /\ path = "merge" =>
               /\ Len(urls) >= 2 \/ (Len(urls) = 1 /\ opts.forceMerge)
               /\ handed = urls /\ Range(handed) = NonEmptyUrls
               /\ mergeFormat = format
          /\ path = "end" => (urls = <<>> /\ handed = <<>> /\ mergeFormat = "none")
          /\ spc \in {"pipeFetch", "writing"} => path \in {"pipe", "merge"})
  /\ [][(path # "none" /\ round' = round) =>
          (path' = path /\ handed' = handed /\ mergeFormat' = mergeFormat)]_vars
  /\ [][(Locating /\ spc = "resolved" /\ spc' # "resolved") =>
          /\ (Len(urls) >= 2 \/ (Len(urls) = 1 /\ opts.forceMerge)) => path' = "merge"
          /\ (Len(urls) = 1 /\ ~opts.forceMerge) =>
               path' = (IF aborted THEN "none" ELSE "pipe")]_vars

\* C15 witness: one URL, forceMerge set: the merge engine got the URL and the format
C15_Witness ==
  /\ op = "stream" /\ opts.forceMerge /\ Len(urls) = 1
  /\ path = "merge" /\ handed = urls /\ mergeFormat = "CSV" /\ format = "CSV"

\* a SUCCEEDED result with a manifest of zero chunks, no external links and no rows
EmptyResult ==
  /\ rstate = "SUCCEEDED" /\ manifest /\ total = 0
  /\ payload = <<>> /\ inlineRows = 0
  /\ op = "stream" => kind # "inline"
  /\ kind = "external" => format = "JSON_ARRAY"

\* C16: for a result of zero chunks and no external links no request is ever sent and
\* neither the pipe nor the merge engine is used, with or without forceMerge; nothing
\* is written and no row is delivered; unless the signal fires during the call the
\* stream ends normally and fetchRow resolves.
C16_EmptyResult ==
  (op \in {"stream", "row"} /\ EmptyResult) =>
    /\ chunkReqs = <<>> /\ path \in {"none", "end"} /\ handed = <<>>
    /\ written = <<>> /\ delivered = <<>> /\ failure = "none"
    /\ abortAt \in {"never", "done"} =>
         /\ out # "errored"
         /\ (Locating /\ spc = "closed") => out \in {"ended", "closed"}
         /\ (op = "row" /\ rpc = "done") => outcome = "Resolved"

\* C16 witness: fetchStream with forceMerge on the empty result: the stream has ended
\* and was read to its end, nothing was requested or written
C16_Witness ==
  /\ op = "stream" /\ EmptyResult /\ opts.forceMerge /\ abortAt = "never"
  /\ path = "end" /\ out = "closed" /\ chunkReqs = <<>> /\ written = <<>>

\* C17: when the signal fires while the stream of fetchStream is open, the stream is
\* destroyed with AbortError in that very step; from then on it stays destroyed with
\* that error, nothing more is written to it, its consumer gets no further row and no
\* normal end, whatever the requests still in flight deliver.
C17_AbortDestroysStream ==
  /\ [][(Locating /\ ~aborted /\ aborted' /\ out = "open") =>
          (out' = "errored" /\ outErr' = "AbortError")]_vars
  /\ [][(Locating /\ out = "errored" /\ outErr = "AbortError") =>
          /\ out' = "errored" /\ outErr' = "AbortError"
          /\ written' = written /\ delivered' = delivered
          /\ outcome' # "Resolved"]_vars

\* C17 witness: the signal fired while the request for chunk 0 was in flight; the
\* response still came and reported links, the stream stayed destroyed and empty
C17_Witness ==
  /\ op = "stream" /\ abortAt = "getChunk" /\ chunkReqs = <<0>>
  /\ Len(disc) > Len(payload)
  /\ out = "errored" /\ outErr = "AbortError" /\ written = <<>>

\* C18: a chunk request that fails, a URL that answers with a non-success status and a
\* failing merge engine destroy the stream with their error (an already destroyed
\* stream keeps the error it has); fetchStream has returned and throws nothing, and a
\* stream that suffered such a failure never ends normally.
C18_FailureDestroysStream ==
  /\ [](Locating /\ failure # "none" =>
          /\ out = "errored"
          /\ outErr = failure \/ (aborted /\ outErr = "AbortError")
          /\ op = "stream" => outcome = "none")
  /\ [][(Locating /\ failure = "none" /\ failure' # "none" /\ out = "open") =>
          (out' = "errored" /\ outErr' = failure')]_vars

\* C18 witness: the single URL answered with a non-success status
C18_Witness ==
  /\ op = "stream" /\ ~aborted /\ path = "pipe" /\ failure = "Error"
  /\ out = "errored" /\ outErr = "Error" /\ outcome = "none"

\* C19: fetchRow (and fetchAll through it) given an external-link result whose format is
\* not JSON_ARRAY rejects with UNSUPPORTED_FORMAT at the call: fetchStream is not
\* entered, no request is sent, no stream is opened, no row reaches the callback.
C19_ExternalFormatUnsupported ==
  (op = "row" /\ rstate = "SUCCEEDED" /\ manifest /\ kind = "external"
     /\ format # "JSON_ARRAY") =>
    /\ spc = "idle" /\ out = "none" /\ path = "none"
    /\ chunkReqs = <<>> /\ written = <<>> /\ delivered = <<>>
    /\ rpc # "idle" =>
         (rpc = "done" /\ outcome = "DatabricksSqlError"
          /\ thrown.code = "UNSUPPORTED_FORMAT")

\* C19 witness: a CSV external-link result with a link was rejected
C19_Witness ==
  /\ op = "row" /\ kind = "external" /\ format = "CSV" /\ Len(payload) >= 1
  /\ rpc = "done" /\ thrown.code = "UNSUPPORTED_FORMAT" /\ out = "none"

\* C20 as stated: fetchRow called with an already aborted signal on any valid result
\* sends no chunk request, calls onEachRow zero times and rejects with an abort error.
C20_PreAbortedRowRejects ==
  (op = "row" /\ abortAt = "before" /\ rstate = "SUCCEEDED" /\ manifest
     /\ (kind = "external" => format = "JSON_ARRAY")) =>
    /\ delivered = <<>>
    /\ chunkReqs = <<>>
    /\ rpc = "done" => outcome \in AbortClass

\* the result passes the checks fetchRow makes at the call
RowAccepted ==
  rstate = "SUCCEEDED" /\ manifest /\ (kind = "external" => format = "JSON_ARRAY")

\* C21 as stated: once the signal has fired (after the call was made) fetchRow calls
\* onEachRow no further time, on the inline and on the external-link path, and rejects
\* with an abort error; the callback of the i-th row firing the signal leaves exactly
\* i rows delivered.
C21_AbortStopsRowsAndRejects ==
  /\ [][(op = "row" /\ aborted) => delivered' = delivered]_vars
  /\ []((op = "row" /\ RowAccepted /\ rpc = "done"
           /\ abortAt \notin {"never", "before", "done"}) =>
          outcome \in AbortClass)

\* C22: fetchAll is fetchRow with a collecting callback: its array holds exactly the
\* rows fetchRow has passed to the callback, in that order; it settles when and as
\* fetchRow settles; on success it returns those rows, and when fetchRow rejects it
\* rejects with the same error and returns no list, whatever was collected.
C22_FetchAllIsFetchRow ==
  op = "row" =>
    /\ rows = delivered
    /\ allOutcome = outcome
    /\ outcome = "Resolved" => returned = delivered
    /\ outcome # "Resolved" => returned = <<>>

\* C22 witness: fetchRow was aborted after it had delivered a row: fetchAll rejected
\* with AbortError and returned nothing
C22_Witness ==
  /\ op = "row" /\ rpc = "done" /\ Len(rows) >= 1
  /\ allOutcome = "AbortError" /\ thrown.code = "ABORTED" /\ returned = <<>>

\* the whole result is one external link: one link in the payload, at most one chunk
SingleLink == kind = "external" /\ Len(payload) = 1 /\ total <= 1

\* C23: given a result without external_links (inline data, or nothing), or, with
\* forceMerge off, a result that is a single external link, mergeExternalLinks returns
\* the input result itself, whatever its state: no stream is opened, no request is
\* sent, the upload callback is not invoked and no new result is built.
C23_MergeReturnsOriginal ==
  (op = "merge" /\ (kind # "external" \/ (~opts.forceMerge /\ SingleLink))) =>
    /\ spc = "idle" /\ out = "none" /\ path = "none"
    /\ chunkReqs = <<>> /\ written = <<>>
    /\ uploads = 0 /\ merged = <<>>
    /\ mpc = "done" => outcome = "Original"

\* C23 witness: a single external link without forceMerge came back as it was
C23_Witness ==
  /\ op = "merge" /\ SingleLink /\ ~payload[1].empty /\ ~opts.forceMerge
  /\ rstate = "SUCCEEDED" /\ mpc = "done" /\ outcome = "Original" /\ uploads = 0

\* the row count the merged chunk must report
OriginalRowCount == IF totalRowCount = <<>> THEN 0 ELSE totalRowCount[1]

\* C24: when mergeExternalLinks merges, it passes the one stream of fetchStream to the
\* upload callback, which it invokes once and never again; the result it returns is a
\* new one with the statement id and status of the input, the manifest's format, schema
\* and total_row_count, total_chunk_count 1, and one chunk and one external link with
\* chunk_index 0, row_offset 0, row_count the original total row count (0 when the
\* manifest has none), and byte count, URL and expiration of the upload descriptor;
\* the input result is never modified.
C24_MergedResult ==
  /\ [](op = "merge" =>
          /\ uploads <= 1
          /\ mpc = "upload" => (uploads = 1 /\ out # "none")
          /\ outcome # "Merged" => merged = <<>>
          /\ outcome = "Merged" =>
               /\ uploads = 1 /\ out = "closed" /\ Len(merged) = 1
               /\ \E d \in UploadResults :
                    LET r == merged[1] IN
                    /\ r.statement_id = "statement_id" /\ r.status = rstate
                    /\ r.manifest.format = format /\ r.manifest.schema = "schema"
                    /\ r.manifest.total_row_count = totalRowCount
                    /\ r.manifest.total_chunk_count = 1
                    /\ r.manifest.total_byte_count = d.byte_count
                    /\ r.manifest.chunks =
                         <<[chunk_index |-> 0, row_offset |-> 0,
                            row_count |-> OriginalRowCount, byte_count |-> d.byte_count]>>
                    /\ r.result.external_links =
                         <<[chunk_index |-> 0, row_offset |-> 0,
                            row_count |-> OriginalRowCount, byte_count |-> d.byte_count,
                            external_link |-> d.externalLink,
                            expiration |-> d.expiration]>>)
  /\ [][(op = "merge" /\ round' = round) => UNCHANGED resultVars]_vars

\* C24 witness: three URLs of two chunks merged into one link of 5 rows
C24_Witness ==
  /\ op = "merge" /\ outcome = "Merged" /\ total = 2 /\ path = "merge" /\ Len(handed) = 3
  /\ totalRowCount = <<5>>
  /\ merged[1].manifest.total_chunk_count = 1
  /\ merged[1].result.external_links[1].row_count = 5

\* the calls of a JSON_OBJECT mapper made so far
ObjectDecodes ==
  IF op = "map" /\ mapFormat = "JSON_OBJECT" THEN {decodes[i] : i \in DOMAIN decodes} ELSE {}

\* the cell of the typed column in the row a call was given
CellOf(e) == inRows[e.row][2]

\* v is the integer n exactly: a bigint equal to n whose decimal string is the one the
\* service sent, or, with the encodeBigInt hook, that decimal string itself
ExactInteger(v, n) ==
  IF encodeBigInt THEN v = BigIntToString(n)
  ELSE v.t = "big" /\ v.n = n /\ BigIntToString(v.n) = BigIntToString(n)

\* C25: a BIGINT/LONG cell given as the decimal string of an integer, of magnitude
\* above the largest integer a double holds too, is decoded to exactly that integer,
\* never to a rounded number, at column level and inside STRUCT, ARRAY and MAP values;
\* the decimal string of the decoded integer is the original string.
C25_BigIntExact ==
  \A e \in ObjectDecodes : \A n \in IntValues :
    LET str == BigIntToString(n)
        cell == CellOf(e)
        value == e.result.f["value"]
    IN  /\ (columnType = Leaf("BIGINT") /\ cell = str) =>
              (e.result.t = "obj" /\ ExactInteger(value, n))
        /\ (columnType = StructOf("big", Leaf("BIGINT"))
              /\ cell \in {JsonString(JObj([big |-> JStr(str)])), Obj([big |-> str])}) =>
              (e.result.t = "obj" /\ value.t = "obj" /\ ExactInteger(value.f["big"], n))
        /\ (columnType = ArrayOf(Leaf("LONG")) /\ cell = JsonString(JArr(<<JStr(str)>>))) =>
              (e.result.t = "obj" /\ value.t = "arr" /\ ExactInteger(value.e[1], n))
        /\ (columnType = ArrayOf(Leaf("LONG"))
              /\ cell = JsonString(JArr(<<JStr(BigIntToString(-3)), JStr(str)>>))) =>
              (e.result.t = "obj" /\ value.t = "arr" /\ ExactInteger(value.e[1], -3)
                 /\ ExactInteger(value.e[2], n))
        /\ (columnType = MapOf(Leaf("STRING"), Leaf("BIGINT"))
              /\ cell = JsonString(JObj([k1 |-> JStr(str)]))) =>
              (e.result.t = "obj" /\ value.t = "obj" /\ ExactInteger(value.f["k1"], n))
        /\ (columnType = StructOf("s", StructOf("big", Leaf("BIGINT")))
              /\ cell \in {JsonString(JObj([s |-> JObj([big |-> JStr(str)])])),
                           JsonString(JObj([s |-> JStr(JsonString(JObj([big |->
                                                         JStr(str)])))]))}) =>
              (e.result.t = "obj" /\ value.t = "obj" /\ value.f["s"].t = "obj"
                 /\ ExactInteger(value.f["s"].f["big"], n))

\* C25 witness: an integer no double holds came back exactly from inside a STRUCT
\* nested in a STRUCT, and its negative from a BIGINT column through the hook
C25_Witness ==
  /\ op = "map" /\ mapFormat = "JSON_OBJECT" /\ Len(decodes) = 2
  /\ ToDouble(Unsafe) # Unsafe
  /\ \/ /\ ~encodeBigInt /\ columnType = StructOf("s", StructOf("big", Leaf("BIGINT")))
        /\ inRows[1][2] = JsonString(JObj([s |-> JObj([big |-> JStr(BigIntToString(Unsafe))])]))
        /\ decodes[1].row = 1 /\ decodes[1].result.t = "obj"
        /\ decodes[1].result.f["value"].f["s"].f["big"] = Big(Unsafe)
     \/ /\ encodeBigInt /\ columnType = Leaf("BIGINT")
        /\ inRows[2][2] = BigIntToString(-Unsafe)
        /\ decodes[2].row = 2 /\ decodes[2].result.t = "obj"
        /\ decodes[2].result.f["value"] = BigIntToString(-Unsafe)

BadContainerCell(cell) ==
  /\ columnType \in ContainerTypes
  /\ \/ cell = BadString
     \/ /\ columnType = StructOf("s", StructOf("big", Leaf("BIGINT")))
        /\ cell = JsonString(JObj([s |-> JStr(BadString)]))

LibraryErrors == {"DatabricksSqlError", "StatementCancelledError", "AbortError"}

\* the id of the statement is known to the call: fetchRow is given it with the
\* result, executeStatement has it from the first response on
StatementIdKnown == op = "row" \/ (op = "exec" /\ observed # <<>>)

\* C28: every error that executeStatement, fetchRow or fetchAll raises about a
\* statement whose id the call knows carries that id, a code and a message.
C28_ErrorsCarryStatementId ==
  (op \in {"exec", "row"} /\ outcome \in LibraryErrors /\ StatementIdKnown) =>
    (thrown.statementId /\ thrown.code # "none" /\ thrown.message # "none")

\* metrics requests sent and not yet answered
PendingMetrics == IF epc \in {"loopMetrics", "finalMetrics"} THEN 1 ELSE 0

C30_EmptyWhenNoChunksOrNoLinks ==
  (Locating /\ spc = "resolved" /\ (total = 0 \/ payload = <<>>)) => urls = <<>>

\* the payload's links with a non-empty URL
PayloadUrls == {u \in 1..Len(payload) : ~payload[u].empty}

\* C30: the URL list is empty exactly when no link with a non-empty URL was reported,
\* by the payload or by a chunk response, and an empty list ends the stream without
\* pipe or merge.  With zero total chunks the list is the payload's URLs and nothing
\* is requested: it is empty when the payload has none.  With an empty payload and
\* n > 0 chunks, chunk 0 and then every chunk for which no response has reported a
\* URL is requested, and the list holds the URLs of the responses.
C30_EmptyWithoutUrls ==
  /\ (Locating /\ spc = "resolved") =>
       /\ urls = <<>> <=> NonEmptyUrls = {}
       /\ total = 0 =>
            (chunkReqs = <<>> /\ Len(urls) = Cardinality(PayloadUrls))
       /\ (total = 0 /\ PayloadUrls = {}) => urls = <<>>
       /\ (payload = <<>> /\ total > 0) =>
            /\ chunkReqs # <<>> /\ chunkReqs[1] = 0
            /\ \A c \in 0..(total - 1) :
                 (\E i \in DOMAIN chunkReqs : chunkReqs[i] = c)
                   \/ (\E u \in NonEmptyUrls : disc[u].chunk_index = c)
            /\ Len(urls) = Cardinality(NonEmptyUrls)
  /\ (Locating /\ path # "none" /\ urls = <<>>) => (path = "end" /\ handed = <<>>)

\* C30 witness: no link in the payload, both chunks requested, neither reports a URL:
\* the list is empty and the stream has ended
C30_Witness ==
  /\ op = "stream" /\ payload = <<>> /\ total = 2 /\ chunkReqs = <<0, 1>>
  /\ urls = <<>> /\ path = "end" /\ out \in {"ended", "closed"}

\* the signal fired before collectExternalUrls had returned or thrown
AbortedInDiscovery == Locating /\ abortAt \in {"before", "getChunk"}

\* past the chunks requested so far there is a chunk for which no URL is known: the
\* loop has a request left to make
ChunkMissing ==
  NextMissing(chunkUrls, IF chunkReqs = <<>> THEN 0 ELSE chunkReqs[Len(chunkReqs)] + 1,
              total) < total

\* C31 as stated: once the signal has fired during chunk URL discovery, discovery
\* fails with an abort error: it returns no list, and no URL is handed to the pipe or
\* to the merge engine.
C31_AbortFailsDiscovery ==
  (AbortedInDiscovery /\ spc \notin {"idle", "getChunk"}) =>
    (spc = "closed" /\ urls = <<>> /\ path = "none" /\ handed = <<>>)

\* C31: the abort check precedes every chunk-metadata request: once the signal has
\* fired no further chunk-metadata request is sent.  When the signal has fired and a
\* chunk is still to be requested, discovery throws the abort error: no list is
\* returned, no URL is handed to the pipe or to the merge engine, nothing is written,
\* and a stream that exists is destroyed.  When no chunk is left to request, discovery
\* returns its list although the signal has fired.
C31_AbortCheckBeforeChunkRequest ==
  /\ [][(Locating /\ aborted) => chunkReqs' = chunkReqs]_vars
  /\ []((AbortedInDiscovery /\ ChunkMissing /\ spc \notin {"idle", "getChunk"}) =>
          /\ spc = "closed" /\ urls = <<>> /\ path = "none" /\ handed = <<>>
          /\ written = <<>> /\ delivered = <<>>
          /\ out \in {"none", "errored"}
          /\ out = "errored" => outErr \in {"AbortError", "DOMAbortError"} \cup TransportErrors)
  /\ []((AbortedInDiscovery /\ spc = "resolved") => ~ChunkMissing)

\* C31 witness: the signal fired while chunk 0 was being requested; its response
\* came, chunk 1 was never requested, and the stream is destroyed with the abort error
C31_Witness ==
  /\ op = "stream" /\ abortAt = "getChunk" /\ total = 2 /\ chunkReqs = <<0>>
  /\ Len(disc) = 1 /\ ChunkMissing
  /\ spc = "closed" /\ out = "errored" /\ outErr = "AbortError"
  /\ path = "none" /\ written = <<>>

\* C32: on the inline path of fetchRow a follow-up chunk that comes back with
\* external links ends the call with the UNSUPPORTED_FORMAT error, which carries the
\* statement id and reaches the caller (and fetchAll's caller): it is the last chunk
\* received and the last one requested, and no row of it is delivered.
C32_LinkChunkIsFormatError ==
  (op = "row" /\ kind # "external") =>
    \A i \in DOMAIN received :
      received[i].kind = "external_links" =>
        /\ received[i].chunk_index >= 1
        /\ i = Len(received)
        /\ chunkReqs[Len(chunkReqs)] = received[i].chunk_index
        /\ rpc = "done" /\ outcome = "DatabricksSqlError"
        /\ thrown.code = "UNSUPPORTED_FORMAT" /\ thrown.statementId
        /\ allOutcome = "DatabricksSqlError" /\ returned = <<>>
        /\ \A k \in DOMAIN delivered : delivered[k][1] < received[i].chunk_index

\* C32 witness: of three chunks the second came back with external links, after the
\* rows of the first had been delivered; the third was never requested
C32_Witness ==
  /\ op = "row" /\ kind = "inline" /\ total = 3 /\ inlineRows = 2
  /\ Len(received) = 1 /\ received[1].kind = "external_links" /\ received[1].chunk_index = 1
  /\ chunkReqs = <<1>> /\ Len(delivered) = 2
  /\ rpc = "done" /\ thrown.code = "UNSUPPORTED_FORMAT"

C36_NoRequestAfterAbort ==
  [][(op = "exec" /\ aborted') =>
       /\ submits' = submits /\ refetches' = refetches /\ metricsReqs' = metricsReqs
       /\ cancelCount' \in {cancelCount, cancelCount + 1}
       /\ cancelCount' <= 1]_vars

\* C36 witness: the signal fired during the delay after one re-fetch and two metrics
\* requests; the call sent its cancel request and nothing else, and rejected
C36_Witness ==
  /\ op = "exec" /\ abortAt = "delay" /\ epc = "done" /\ outcome = "AbortError"
  /\ submits = 1 /\ refetches = 1 /\ metricsReqs = 2 /\ cancelCount = 1

\* p is a prefix of s
IsPrefix(p, s) == Len(p) <= Len(s) /\ p = SubSeq(s, 1, Len(p))

\* the rows behind the URLs us, in the order of us
RECURSIVE ConcatRows(_)
ConcatRows(us) == IF us = <<>> THEN <<>> ELSE RowsOf(us[1]) \o ConcatRows(Tail(us))

\* the rows of the follow-up chunks cs, in the order of cs
RECURSIVE ChunkRows(_)
ChunkRows(cs) ==
  IF cs = <<>> THEN <<>>
  ELSE [k \in 1..cs[1].rows |-> <<cs[1].chunk_index, 0, k>>] \o ChunkRows(Tail(cs))

\* the ordered rows of the result as far as the service has revealed them: behind
\* the ordered URL list, or the inline rows followed by those of the chunks received
FullRows ==
  IF kind = "external" THEN ConcatRows(urls)
  ELSE [k \in 1..(IF kind = "inline" THEN inlineRows ELSE 0) |-> <<0, 0, k>>]
         \o ChunkRows(received)

\* C37: at every moment of a run of fetchRow the rows passed to the row callback are
\* a prefix of the ordered rows of the result, and when fetchRow has resolved they
\* are all of them, every chunk of the result having been visited.
C37_DeliveredIsPrefix ==
  op = "row" =>
    /\ IsPrefix(delivered, FullRows)
    /\ outcome = "Resolved" =>
         /\ delivered = FullRows
         /\ kind = "external" => Range(urls) = NonEmptyUrls
         /\ kind # "external" =>
              [k \in 1..Len(received) |-> received[k].chunk_index]
                = [k \in 1..(IF total > 1 THEN total - 1 ELSE 0) |-> k]

\* C37 witness: fetchRow was aborted by the callback of the third row of a result with
\* two inline rows and a second chunk of two rows: rows delivered are the first three
C37_Witness ==
  /\ op = "row" /\ kind = "inline" /\ inlineRows = 2 /\ total = 2
  /\ Len(received) = 1 /\ received[1].rows = 2
  /\ outcome = "AbortError" /\ abortAt = "rows"
  /\ delivered = <<<<0, 0, 1>>, <<0, 0, 2>>, <<1, 0, 1>>>>

\* C39: a call of mergeExternalLinks without forceMerge on a result that
\* mergeExternalLinks has built returns that result as it is: it calls neither
\* fetchStream nor the upload callback, sends no request and builds nothing.
C39_IdempotentOnOwnOutput ==
  (op = "merge" /\ round > 1 /\ ~opts.forceMerge) =>
    /\ mpc \in {"idle", "done"}
    /\ uploads = 0 /\ merged = <<>>
    /\ produced # <<>>
    /\ total = produced[1].manifest.total_chunk_count
    /\ Len(payload) = Len(produced[1].result.external_links)
    /\ spc = "idle" /\ out = "none" /\ chunkReqs = <<>> /\ handed = <<>>
    /\ mpc = "done" => (outcome = "Original" /\ thrown = NoError)

\* C39 witness: three links were merged under forceMerge into one result of one
\* chunk; the second call, without forceMerge, has returned that result
C39_Witness ==
  /\ op = "merge" /\ round = 2 /\ ~opts.forceMerge /\ mpc = "done"
  /\ outcome = "Original" /\ uploads = 0
  /\ produced # <<>> /\ produced[1].manifest.total_chunk_count = 1
  /\ Len(produced[1].result.external_links) = 1
  /\ total = 1 /\ Len(payload) = 1

\* the call has left the polling loop through finally, or has settled
PastPolling == epc \in {"finalMetrics", "finalCallback", "done"}

\* C40: onAbort of executeStatement is attached only while the call polls (from the
\* submit response on; the catch block still holds it while it awaits its own cancel
\* request, the signal having fired), and is gone once the call has left the loop on
\* any path or has settled; a signal that fires then sends no cancel request.
C40_ListenerOnlyWhilePolling ==
  op = "exec" =>
    /\ listener => (epc \in LoopPoints \/ (epc = "catchCancel" /\ aborted))
    /\ listener => submits = 1 /\ observed # <<>>
    /\ PastPolling => ~listener
    /\ abortAt \in {"finalMetrics", "finalCallback", "done"} =>
         (cancelCount = 0 /\ cancelReq = "none" /\ ~cancelIssued)

\* C40 witness: the signal fired after the call had rejected with a transport error
\* of a status re-fetch: no cancel request was sent
C40_Witness ==
  /\ op = "exec" /\ outcome = "TransportError" /\ refetches = 1
  /\ aborted /\ abortAt = "done" /\ ~listener /\ cancelCount = 0

\* the responses that call for another attempt: a network error, a 5xx status, a 429
\* that names a positive number of seconds to wait
RetryableAsClaimed(r) ==
  \/ r.k = "network"
  \/ r.k = "status" /\ r.status >= 500
  \/ r.k = "status" /\ r.status = 429 /\ r.retryAfter.h = "int" /\ r.retryAfter.n > 0

\* C38 as stated: httpRequest calls fetch at most MAX_RETRIES + 1 = 4 times and has an
\* outcome when it is done; fetch is called again only after a 5xx response, a
\* network error or a 429 with a positive Retry-After, with attempts left and the
\* signal not fired; a 401 or another 4xx response ends the request at once.
C38_BoundedRetries ==
  /\ [](op = "http" =>
          /\ fetches <= MAX_RETRIES + 1
          /\ hpc = "done" => outcome # "none")
  /\ [][(op = "http" /\ fetches' > fetches /\ fetches > 0) =>
          /\ ~aborted /\ attempt < MAX_RETRIES
          /\ RetryableAsClaimed(lastResponse)]_vars
  /\ [][(op = "http" /\ hpc = "fetch" /\ lastResponse'.k = "status"
           /\ lastResponse'.status \in {401, 404}) => hpc' = "done"]_vars

\* the call has come to rest: no step of the operation itself is left to take
AtRest == ~ENABLED (ExecNext \/ StreamNext \/ RowNext)

\* what the caller of the operation has got: how the promise of executeStatement or
\* fetchRow settled, or the error the stream of fetchStream was destroyed with
CallerGot == IF op = "stream" THEN outErr ELSE outcome

\* C35 as stated: when a submit, a status re-fetch or a chunk lookup of
\* executeStatement, fetchRow or fetchStream was rejected with an AuthenticationError
\* or a RateLimitError and the signal has not fired, that error is what the caller gets.
C35_TransportErrorsSurface ==
  (op \in {"exec", "row", "stream"} /\ ~aborted /\ AtRest
     /\ raised \in {"AuthenticationError", "RateLimitError"}) =>
    CallerGot = raised

\* the URLs of call c's own result it has seen: once it is made, the non-empty link
\* of its payload and the non-empty links its chunk lookups have reported
OwnUrls(c) ==
  LET call == calls[c] IN
  {UrlBase(c) + 1 : x \in {y \in DOMAIN call.payload :
                               call.pc # "idle" /\ ~call.payload[y].empty}}
    \cup {UrlBase(c) + 5 + k : k \in {y \in 1..Len(call.reqs) :
                                       /\ call.later # <<>> /\ ~call.later[1].empty
                                       /\ (y < Len(call.reqs) \/ call.pc = "done")}}

\* the URLs call c holds in its map
HeldUrls(c) == UNION {Range(calls[c].chunkUrls[e].links) : e \in DOMAIN calls[c].chunkUrls}

\* C34: of two calls that run interleaved each has what it has when it runs alone,
\* which what it was given determines: fetchAll holds and returns the rows of its own
\* result, in order, decoded under its own format; fetchStream holds and returns the
\* URLs of its own result and has asked for chunks of its own result only, in
\* ascending order; executeStatement has sent its one cancel request exactly when
\* its own signal fired during its polling, and rejects with AbortError only then.
C34_CallsDoNotInterfere ==
  op = "pair" =>
    \A c \in Calls :
      LET call == calls[c] IN
      /\ call.rows = [k \in 1..Len(call.rows) |-> <<call.format, c, k>>]
      /\ Len(call.rows) = call.ri
      /\ call.fn = "fetchAll" =>
           /\ call.ri <= call.n /\ call.reqs = <<>>
           /\ call.pc = "done" => call.result = <<[k \in 1..call.n |-> <<call.format, c, k>>]>>
      /\ call.fn # "fetchAll" => call.rows = <<>>
      /\ HeldUrls(c) = OwnUrls(c)
      /\ call.fn = "fetchStream" =>
           /\ \A k \in DOMAIN call.reqs :
                /\ call.reqs[k].kind = "getChunk" /\ call.reqs[k].index < call.total
                /\ k > 1 => call.reqs[k - 1].index < call.reqs[k].index
           /\ call.pc = "done" => Range(call.result[1]) = OwnUrls(c)
      /\ call.fn = "executeStatement" =>
           /\ call.reqs = (IF call.cancelIssued THEN <<[kind |-> "cancel", index |-> 0]>>
                                                ELSE <<>>)
           /\ call.cancelIssued => call.aborted
           /\ call.pc = "done" =>
                /\ call.result \in {<<"AbortError">>, <<"Returned">>}
                /\ call.result = <<"AbortError">> => call.cancelIssued
      /\ call.fn # "executeStatement" => ~call.cancelIssued

\* C34 witness: two calls of fetchAll with different formats have each delivered the
\* first of their two rows while the other was under way
C34_Witness ==
  /\ op = "pair"
  /\ calls[1].fn = "fetchAll" /\ calls[2].fn = "fetchAll"
  /\ calls[1].format = "JSON_OBJECT" /\ calls[2].format = "JSON_ARRAY"
  /\ calls[1].n = 2 /\ calls[2].n = 2
  /\ calls[1].pc = "rows" /\ calls[2].pc = "rows"
  /\ calls[1].rows = <<<<"JSON_OBJECT", 1, 1>>>>
  /\ calls[2].rows = <<<<"JSON_ARRAY", 2, 1>>>>

====
